---- MODULE Spec2Model ----
(***************************************************************************)
(* Permission manager of core-alljoyn (alljoyn_core/src/PermissionManager.cc):*)
(* request classification, right derivation, rule / ACL / policy matching,  *)
(* peer qualification, manifest enforcement, the permission-management gate *)
(* and the two entry points AuthorizeMessage and AuthorizeGetProperty.      *)
(*                                                                         *)
(* Strings are sequences of symbols.  A symbol stands for a fixed run of    *)
(* characters; the symbols are chosen prefix-free, so "is a prefix of" on   *)
(* sequences is strncmp-prefix on the strings and = is strcmp.  A NULL      *)
(* char pointer is the distinguished value NullStr.  Bit masks are sets of  *)
(* bit names: (m & r) == r is (m \cap r) = r and m == 0 is m = {}.          *)
(***************************************************************************)
EXTENDS Integers, Sequences, FiniteSets, TLC

VARIABLES permissionMgmtObj, policy, peerState, out, permissionMgmt, nameTable

vars == <<permissionMgmtObj, policy, peerState, out, permissionMgmt, nameTable>>

(***************************************************************************)
(* Strings                                                                 *)
(***************************************************************************)
NullStr == <<"<NULL>">>

EmptyStr == <<>>

Star == <<"*">>

IsNull(s) == s = NullStr

\* strncmp(s, p, strlen(p)) == 0
HasPrefix(s, p) == Len(s) >= Len(p) /\ SubSeq(s, 1, Len(p)) = p

\* qcc::WildcardMatch(str, pat): 0 when str matches pat, 1 otherwise.
\* Indices pi, si are the 0-based loop indices of the function.
RECURSIVE WildcardScan(_, _, _)
WildcardScan(s, c, si) ==
    IF si < Len(s) /\ s[si + 1] # c THEN WildcardScan(s, c, si + 1) ELSE si

RECURSIVE WildcardLoop(_, _, _, _)
WildcardLoop(s, p, pi, si) ==
    IF pi < Len(p) /\ si < Len(s)
    THEN IF p[pi + 1] = "*"
         THEN IF pi + 1 = Len(p) THEN 0
              ELSE IF p[pi + 2] \in {"*", "?"} THEN 1
              ELSE WildcardLoop(s, p, pi + 2, WildcardScan(s, p[pi + 2], si) + 1)
         ELSE IF p[pi + 1] = "?" THEN WildcardLoop(s, p, pi + 1, si + 1)
         ELSE IF p[pi + 1] # s[si + 1] THEN 1
         ELSE WildcardLoop(s, p, pi + 1, si + 1)
    ELSE IF pi = Len(p) /\ si = Len(s) THEN 0
    ELSE IF pi < Len(p) /\ si = Len(s)
         THEN (IF p[pi + 1] = "*" THEN 0 ELSE 1)
    ELSE 1

WildcardMatch(s, p) ==
    IF Len(p) = 0 \/ Len(s) = 0 THEN 1 ELSE WildcardLoop(s, p, 0, 0)

MatchesPrefix(s, prefix) == WildcardMatch(s, prefix) = 0

(***************************************************************************)
(* Action bits and member types                                            *)
(***************************************************************************)
ACTION_PROVIDE == {"PROVIDE"}

ACTION_OBSERVE == {"OBSERVE"}

ACTION_MODIFY == {"MODIFY"}

NoRight == {}

AllActions == ACTION_PROVIDE \cup ACTION_OBSERVE \cup ACTION_MODIFY

MemberTypes == {"NOT_SPECIFIED", "METHOD_CALL", "SIGNAL", "PROPERTY"}

IsActionDenied(allowedActions) == allowedActions = {}

\* A plausible slip: any nonzero mask allows.
IsActionAllowedNonzero(allowedActions, requestedAction) == allowedActions # {}

IsActionAllowed(allowedActions, requestedAction) ==
    (allowedActions \cap requestedAction) = requestedAction

(***************************************************************************)
(* GenRight: the right a request requires                                  *)
(***************************************************************************)
GenRightSwapped(request) ==
    IF request.propertyRequest
    THEN IF request.mbrType = "SIGNAL"
         THEN (IF request.outgoing THEN ACTION_OBSERVE ELSE ACTION_PROVIDE)
         ELSE IF request.isSetProperty
         THEN (IF request.outgoing THEN ACTION_PROVIDE ELSE ACTION_MODIFY)
         ELSE (IF request.outgoing THEN ACTION_OBSERVE ELSE ACTION_PROVIDE)
    ELSE IF request.mbrType = "METHOD_CALL"
    THEN (IF request.outgoing THEN ACTION_PROVIDE ELSE ACTION_MODIFY)
    ELSE IF request.mbrType = "SIGNAL"
    THEN (IF request.outgoing THEN ACTION_OBSERVE ELSE ACTION_PROVIDE)
    ELSE NoRight

GenRight(request) ==
    IF request.propertyRequest
    THEN IF request.mbrType = "SIGNAL"
         THEN (IF request.outgoing THEN ACTION_OBSERVE ELSE ACTION_PROVIDE)
         ELSE IF request.isSetProperty
         THEN (IF request.outgoing THEN ACTION_PROVIDE ELSE ACTION_MODIFY)
         ELSE (IF request.outgoing THEN ACTION_PROVIDE ELSE ACTION_OBSERVE)
    ELSE IF request.mbrType = "METHOD_CALL"
    THEN (IF request.outgoing THEN ACTION_PROVIDE ELSE ACTION_MODIFY)
    ELSE IF request.mbrType = "SIGNAL"
    THEN (IF request.outgoing THEN ACTION_OBSERVE ELSE ACTION_PROVIDE)
    ELSE NoRight

(***************************************************************************)
(* IsRuleMatched.  A rule is [objPath, interfaceName, members]; a member is *)
(* [memberName, memberType, actionMask].  The result is [allowed, denied]:  *)
(* the return value and the value of the in/out parameter denied.           *)
(***************************************************************************)
RECURSIVE GetAllMembersLoop(_, _, _, _, _, _, _)
GetAllMembersLoop(members, cnt, allowed, requiredAuth, scanForDenied, denied, strictGetAllProperties) ==
    IF cnt > Len(members) THEN [allowed |-> allowed, denied |-> denied]
    ELSE LET m == members[cnt] IN
         IF m.memberName = EmptyStr
         THEN GetAllMembersLoop(members, cnt + 1, allowed, requiredAuth, scanForDenied, denied, strictGetAllProperties)
         ELSE IF m.memberName = Star
         THEN IF scanForDenied /\ IsActionDenied(m.actionMask)
              THEN [allowed |-> FALSE, denied |-> TRUE]
              ELSE IF m.memberType \notin {"PROPERTY", "NOT_SPECIFIED"}
              THEN GetAllMembersLoop(members, cnt + 1, allowed, requiredAuth, scanForDenied, denied, strictGetAllProperties)
              ELSE LET a == IF ~allowed THEN IsActionAllowed(m.actionMask, requiredAuth) ELSE allowed IN
                   IF a /\ ~scanForDenied THEN [allowed |-> a, denied |-> denied]
                   ELSE GetAllMembersLoop(members, cnt + 1, a, requiredAuth, scanForDenied, denied, strictGetAllProperties)
         ELSE LET a == IF ~strictGetAllProperties THEN TRUE ELSE allowed IN
              IF a /\ ~scanForDenied THEN [allowed |-> a, denied |-> denied]
              ELSE GetAllMembersLoop(members, cnt + 1, a, requiredAuth, scanForDenied, denied, strictGetAllProperties)

RECURSIVE NamedMembersLoop(_, _, _, _, _, _, _)
NamedMembersLoop(members, cnt, allowed, request, requiredAuth, scanForDenied, denied) ==
    IF cnt > Len(members) THEN [allowed |-> allowed, denied |-> denied]
    ELSE LET m == members[cnt] IN
         IF m.memberName = EmptyStr
         THEN NamedMembersLoop(members, cnt + 1, allowed, request, requiredAuth, scanForDenied, denied)
         ELSE IF ~(m.memberName = request.mbrName \/ MatchesPrefix(request.mbrName, m.memberName))
         THEN NamedMembersLoop(members, cnt + 1, allowed, request, requiredAuth, scanForDenied, denied)
         ELSE IF m.memberType # "NOT_SPECIFIED" /\ request.mbrType # m.memberType
         THEN NamedMembersLoop(members, cnt + 1, allowed, request, requiredAuth, scanForDenied, denied)
         ELSE IF scanForDenied /\ m.memberName = Star /\ IsActionDenied(m.actionMask)
         THEN [allowed |-> FALSE, denied |-> TRUE]
         ELSE LET a == IF ~allowed THEN IsActionAllowed(m.actionMask, requiredAuth) ELSE allowed IN
              IF a /\ ~scanForDenied THEN [allowed |-> a, denied |-> denied]
              ELSE NamedMembersLoop(members, cnt + 1, a, request, requiredAuth, scanForDenied, denied)

\* A plausible slip: GetAll is never matched strictly.
IsRuleMatchedNeverStrict(rule, request, requiredAuth, scanForDenied, denied, strictGetAllProperties) ==
    LET no == [allowed |-> FALSE, denied |-> denied]
        scan == scanForDenied /\ rule.objPath = Star /\ rule.interfaceName = Star
    IN
    IF Len(rule.members) = 0 \/ rule.objPath = EmptyStr \/ rule.interfaceName = EmptyStr THEN no
    ELSE IF ~(rule.objPath = request.objPath \/ MatchesPrefix(request.objPath, rule.objPath)) THEN no
    ELSE IF ~(rule.interfaceName = request.iName \/ MatchesPrefix(request.iName, rule.interfaceName)) THEN no
    ELSE IF IsNull(request.mbrName) \/ Len(request.mbrName) = 0
         THEN IF ~request.propertyRequest THEN no
              ELSE GetAllMembersLoop(rule.members, 1, FALSE, requiredAuth, scan, denied, FALSE)
         ELSE NamedMembersLoop(rule.members, 1, FALSE, request, requiredAuth, scan, denied)

IsRuleMatched(rule, request, requiredAuth, scanForDenied, denied, strictGetAllProperties) ==
    LET no == [allowed |-> FALSE, denied |-> denied]
        scan == scanForDenied /\ rule.objPath = Star /\ rule.interfaceName = Star
    IN
    IF Len(rule.members) = 0 THEN no
    ELSE IF rule.objPath = EmptyStr THEN no
    ELSE IF rule.interfaceName = EmptyStr THEN no
    ELSE IF ~(rule.objPath = request.objPath \/ MatchesPrefix(request.objPath, rule.objPath)) THEN no
    ELSE IF ~(rule.interfaceName = request.iName \/ MatchesPrefix(request.iName, rule.interfaceName)) THEN no
    ELSE IF IsNull(request.mbrName) \/ Len(request.mbrName) = 0
         THEN IF ~request.propertyRequest THEN no
              ELSE GetAllMembersLoop(rule.members, 1, FALSE, requiredAuth, scan, denied, strictGetAllProperties)
         ELSE NamedMembersLoop(rule.members, 1, FALSE, request, requiredAuth, scan, denied)

(***************************************************************************)
(* IsPolicyAclMatched.  An ACL is [peers, rules].                          *)
(***************************************************************************)
RECURSIVE AclRulesLoop(_, _, _, _, _, _, _)
AclRulesLoop(rules, cnt, allowed, request, requiredAuth, scanForDenied, denied) ==
    IF cnt > Len(rules) THEN [allowed |-> allowed, denied |-> denied]
    ELSE LET r == IsRuleMatched(rules[cnt], request, requiredAuth, scanForDenied, denied, request.outgoing) IN
         IF r.allowed
         THEN AclRulesLoop(rules, cnt + 1, TRUE, request, requiredAuth, scanForDenied, r.denied)
         ELSE IF r.denied THEN [allowed |-> allowed, denied |-> TRUE]
         ELSE AclRulesLoop(rules, cnt + 1, allowed, request, requiredAuth, scanForDenied, r.denied)

IsPolicyAclMatched(acl, request, requiredAuth, scanForDenied, denied) ==
    AclRulesLoop(acl.rules, 1, FALSE, request, requiredAuth, scanForDenied, denied)

(***************************************************************************)
(* IsPeerQualifiedForAcl.  A peer entry of an ACL is [type, keyInfo,        *)
(* securityGroupId]; keyInfo NoKeyInfo is a NULL GetKeyInfo(); the peer's   *)
(* public key NoKey is a NULL peerPublicKey.  guildMap is a sequence of     *)
(* certificate chains, a certificate is [type, guild].  The result is       *)
(* [qualified, qualifiedPeerWithPublicKey].                                 *)
(***************************************************************************)
NoKeyInfo == "NoKeyInfo"

NoKey == "NoKey"

InIssuerChain(key, issuerChain) == \E i \in DOMAIN issuerChain : issuerChain[i] = key

\* A plausible slip: any certificate of a chain, not only its leaf, is compared.
HasMembershipAnyCert(guildMap, sgId) ==
    \E i \in DOMAIN guildMap : \E c \in DOMAIN guildMap[i] :
        /\ guildMap[i][c].type = "MEMBERSHIP_CERTIFICATE"
        /\ guildMap[i][c].guild = sgId

HasMembership(guildMap, sgId) ==
    \E i \in DOMAIN guildMap :
        /\ Len(guildMap[i]) > 0
        /\ guildMap[i][1].type = "MEMBERSHIP_CERTIFICATE"
        /\ guildMap[i][1].guild = sgId

RECURSIVE AclPeersLoop(_, _, _, _, _, _)
AclPeersLoop(peers, idx, guildMap, trustedPeer, peerPublicKey, issuerChain) ==
    IF idx > Len(peers) THEN [qualified |-> FALSE, qualifiedPeerWithPublicKey |-> FALSE]
    ELSE LET p == peers[idx] IN
         IF p.type = "PEER_ALL" THEN [qualified |-> TRUE, qualifiedPeerWithPublicKey |-> FALSE]
         ELSE IF ~trustedPeer THEN AclPeersLoop(peers, idx + 1, guildMap, trustedPeer, peerPublicKey, issuerChain)
         ELSE IF p.type = "PEER_ANY_TRUSTED" THEN [qualified |-> TRUE, qualifiedPeerWithPublicKey |-> FALSE]
         ELSE IF peerPublicKey = NoKey THEN AclPeersLoop(peers, idx + 1, guildMap, trustedPeer, peerPublicKey, issuerChain)
         ELSE IF p.type = "PEER_WITH_PUBLIC_KEY" /\ p.keyInfo # NoKeyInfo /\ p.keyInfo = peerPublicKey
         THEN [qualified |-> TRUE, qualifiedPeerWithPublicKey |-> TRUE]
         ELSE IF p.type = "PEER_FROM_CERTIFICATE_AUTHORITY" /\ p.keyInfo # NoKeyInfo /\ InIssuerChain(p.keyInfo, issuerChain)
         THEN [qualified |-> TRUE, qualifiedPeerWithPublicKey |-> FALSE]
         ELSE IF p.type = "PEER_WITH_MEMBERSHIP" /\ HasMembership(guildMap, p.securityGroupId)
         THEN [qualified |-> TRUE, qualifiedPeerWithPublicKey |-> FALSE]
         ELSE AclPeersLoop(peers, idx + 1, guildMap, trustedPeer, peerPublicKey, issuerChain)

\* A plausible slip: every qualification turns the deny scan on.
IsPeerQualifiedForAclAlwaysScans(acl, ps, trustedPeer, peerPublicKey, issuerChain) ==
    LET q == AclPeersLoop(acl.peers, 1, ps.guildMap, trustedPeer, peerPublicKey, issuerChain) IN
    [qualified |-> q.qualified, qualifiedPeerWithPublicKey |-> q.qualified]

\* A plausible slip: the entries are tested as if every peer were trusted.
IsPeerQualifiedForAclTrustsAll(acl, ps, trustedPeer, peerPublicKey, issuerChain) ==
    AclPeersLoop(acl.peers, 1, ps.guildMap, TRUE, peerPublicKey, issuerChain)

IsPeerQualifiedForAcl(acl, ps, trustedPeer, peerPublicKey, issuerChain) ==
    AclPeersLoop(acl.peers, 1, ps.guildMap, trustedPeer, peerPublicKey, issuerChain)

(***************************************************************************)
(* IsPeerAuthorized: all ACLs the peer qualifies for, until one denies.    *)
(* The result is [allowed, denied].                                        *)
(***************************************************************************)
RECURSIVE PolicyAclsLoop(_, _, _, _, _, _, _, _, _)
PolicyAclsLoop(acls, cnt, allowed, request, ps, trustedPeer, peerPublicKey, issuerChain, requiredAuth) ==
    IF cnt > Len(acls) THEN [allowed |-> allowed, denied |-> FALSE]
    ELSE LET q == IsPeerQualifiedForAcl(acls[cnt], ps, trustedPeer, peerPublicKey, issuerChain) IN
         IF ~q.qualified
         THEN PolicyAclsLoop(acls, cnt + 1, allowed, request, ps, trustedPeer, peerPublicKey, issuerChain, requiredAuth)
         ELSE LET m == IsPolicyAclMatched(acls[cnt], request, requiredAuth, q.qualifiedPeerWithPublicKey, FALSE)
                  a == allowed \/ m.allowed
              IN IF m.denied THEN [allowed |-> a, denied |-> TRUE]
                 ELSE PolicyAclsLoop(acls, cnt + 1, a, request, ps, trustedPeer, peerPublicKey, issuerChain, requiredAuth)

\* A plausible slip: the search stops at the first ACL that allows.
IsPeerAuthorizedStopsAtAllow(request, pol, ps, trustedPeer, peerPublicKey, issuerChain, requiredAuth) ==
    LET upTo(k) == PolicyAclsLoop(SubSeq(pol.acls, 1, k), 1, FALSE, request, ps, trustedPeer,
                                  peerPublicKey, issuerChain, requiredAuth)
        allowing == { k \in 1..Len(pol.acls) : upTo(k).allowed }
    IN IF allowing = {} THEN upTo(Len(pol.acls))
       ELSE upTo(CHOOSE k \in allowing : \A j \in allowing : k <= j)

IsPeerAuthorized(request, pol, ps, trustedPeer, peerPublicKey, issuerChain, requiredAuth) ==
    PolicyAclsLoop(pol.acls, 1, FALSE, request, ps, trustedPeer, peerPublicKey, issuerChain, requiredAuth)

(***************************************************************************)
(* IsAuthorizedByPeerManifest.  A manifest is a sequence of rules.         *)
(***************************************************************************)
RECURSIVE ManifestRulesLoop(_, _, _, _, _)
ManifestRulesLoop(rules, cnt, allowed, request, right) ==
    IF cnt > Len(rules) THEN [allowed |-> allowed, returned |-> FALSE]
    ELSE LET r == IsRuleMatched(rules[cnt], request, right, FALSE, FALSE, request.outgoing) IN
         IF r.allowed THEN ManifestRulesLoop(rules, cnt + 1, TRUE, request, right)
         ELSE IF r.denied THEN [allowed |-> FALSE, returned |-> TRUE]
         ELSE ManifestRulesLoop(rules, cnt + 1, allowed, request, right)

RECURSIVE ManifestsLoop(_, _, _, _, _)
ManifestsLoop(manifests, i, allowed, request, right) ==
    IF i > Len(manifests) THEN allowed
    ELSE LET r == ManifestRulesLoop(manifests[i], 1, allowed, request, right) IN
         IF r.returned THEN FALSE
         ELSE ManifestsLoop(manifests, i + 1, r.allowed, request, right)

\* A plausible slip: a peer without manifests passes the manifest check.
IsAuthorizedByPeerManifestFloor(request, right, ps) ==
    Len(ps.manifests) = 0 \/ ManifestsLoop(ps.manifests, 1, FALSE, request, right)

IsAuthorizedByPeerManifest(request, right, ps) ==
    ManifestsLoop(ps.manifests, 1, FALSE, request, right)

(***************************************************************************)
(* IsAuthorized.  permissionMgmtObj is [present, hasTrustAnchors,           *)
(* publicKeyStatus, publicKey, capsStatus, capabilities]; the peer state is *)
(* [isLocalPeer, authSuite, manifests, guildMap] together with what         *)
(* GetConnectedPeerAuthMetadata reports for the peer: [metaStatus,          *)
(* publicKeyFound, authMechanism, publicKey, issuerPublicKeys].             *)
(* The result records the verdict and the locals of the function.           *)
(***************************************************************************)
LegacyAuthMechanisms == {"ALLJOYN_ECDHE_PSK", "ALLJOYN_SRP_KEYX", "ALLJOYN_SRP_LOGON"}

\* A plausible slip: a peer trusted through a legacy mechanism keeps manifest
\* enforcement on.
ResolveTrustLegacyEnforces(ps, pmo, authenticated) ==
    IF /\ authenticated /\ ~ps.isLocalPeer /\ ps.metaStatus = "ER_OK"
       /\ ~ps.publicKeyFound /\ ps.authMechanism \in LegacyAuthMechanisms
    THEN [trustedPeer |-> TRUE, trustedPeerPublicKey |-> NoKey,
          issuerPublicKeys |-> ps.issuerPublicKeys, enforceManifest |-> TRUE]
    ELSE IF ~authenticated \/ ps.isLocalPeer \/ ps.metaStatus # "ER_OK"
    THEN [trustedPeer |-> FALSE, trustedPeerPublicKey |-> NoKey,
          issuerPublicKeys |-> <<>>, enforceManifest |-> ps.metaStatus # "ER_BUS_KEY_UNAVAILABLE"]
    ELSE [trustedPeer |-> ps.publicKeyFound,
          trustedPeerPublicKey |-> IF ps.publicKeyFound THEN ps.publicKey ELSE NoKey,
          issuerPublicKeys |-> ps.issuerPublicKeys, enforceManifest |-> ps.publicKeyFound]

\* Lines 466-501: trustedPeer, trustedPeerPublicKey, issuerPublicKeys, enforceManifest
ResolveTrust(ps, pmo, authenticated) ==
    LET untrusted == [trustedPeer |-> FALSE, trustedPeerPublicKey |-> NoKey,
                      issuerPublicKeys |-> <<>>, enforceManifest |-> TRUE]
    IN
    IF ~authenticated THEN untrusted
    ELSE IF ps.isLocalPeer
    THEN IF pmo.publicKeyStatus = "ER_OK"
         THEN [trustedPeer |-> TRUE, trustedPeerPublicKey |-> pmo.publicKey,
               issuerPublicKeys |-> <<>>, enforceManifest |-> FALSE]
         ELSE untrusted
    ELSE IF ps.metaStatus = "ER_OK"
    THEN IF ps.publicKeyFound
         THEN [trustedPeer |-> TRUE, trustedPeerPublicKey |-> ps.publicKey,
               issuerPublicKeys |-> ps.issuerPublicKeys, enforceManifest |-> TRUE]
         ELSE IF ps.authMechanism \in LegacyAuthMechanisms
         THEN [trustedPeer |-> TRUE, trustedPeerPublicKey |-> NoKey,
               issuerPublicKeys |-> ps.issuerPublicKeys, enforceManifest |-> FALSE]
         ELSE [untrusted EXCEPT !.issuerPublicKeys = ps.issuerPublicKeys, !.enforceManifest = FALSE]
    ELSE IF ps.metaStatus = "ER_BUS_KEY_UNAVAILABLE"
    THEN [untrusted EXCEPT !.enforceManifest = FALSE]
    ELSE untrusted

NoTrace ==
    [called |-> FALSE, authorized |-> FALSE, right |-> NoRight, policyChecked |-> FALSE,
     trustedPeer |-> FALSE, trustedPeerPublicKey |-> NoKey, issuerPublicKeys |-> <<>>,
     enforceManifest |-> TRUE, byPolicy |-> FALSE, denied |-> FALSE, manifestChecked |-> FALSE]

\* A plausible slip: the test after the policy check forgets the denied flag.
IsAuthorizedIgnoresDenied(request, pol, ps, pmo, authenticated) ==
    LET right == GenRight(request)
        t == ResolveTrust(ps, pmo, authenticated)
        pa == IsPeerAuthorized(request, pol, ps, t.trustedPeer, t.trustedPeerPublicKey,
                               t.issuerPublicKeys, right)
        base == [NoTrace EXCEPT !.called = TRUE, !.right = right]
    IN
    IF right # NoRight
    THEN IF ~pol.present THEN base
         ELSE LET checked == [base EXCEPT !.policyChecked = TRUE,
                                          !.trustedPeer = t.trustedPeer,
                                          !.trustedPeerPublicKey = t.trustedPeerPublicKey,
                                          !.issuerPublicKeys = t.issuerPublicKeys,
                                          !.enforceManifest = t.enforceManifest,
                                          !.byPolicy = pa.allowed,
                                          !.denied = pa.denied]
              IN IF ~pa.allowed THEN checked
                 ELSE IF t.enforceManifest
                 THEN [checked EXCEPT !.manifestChecked = TRUE,
                                      !.authorized = IsAuthorizedByPeerManifest(request, right, ps)]
                 ELSE [checked EXCEPT !.authorized = TRUE]
    ELSE base

\* A plausible slip: a missing policy is taken as "nothing to enforce".
IsAuthorizedNoPolicyAllows(request, pol, ps, pmo, authenticated) ==
    LET right == GenRight(request)
        t == ResolveTrust(ps, pmo, authenticated)
        pa == IsPeerAuthorized(request, pol, ps, t.trustedPeer, t.trustedPeerPublicKey,
                               t.issuerPublicKeys, right)
        base == [NoTrace EXCEPT !.called = TRUE, !.right = right]
    IN
    IF right # NoRight
    THEN IF ~pol.present THEN [base EXCEPT !.authorized = TRUE]
         ELSE LET checked == [base EXCEPT !.policyChecked = TRUE,
                                          !.trustedPeer = t.trustedPeer,
                                          !.trustedPeerPublicKey = t.trustedPeerPublicKey,
                                          !.issuerPublicKeys = t.issuerPublicKeys,
                                          !.enforceManifest = t.enforceManifest,
                                          !.byPolicy = pa.allowed,
                                          !.denied = pa.denied]
              IN IF pa.denied \/ ~pa.allowed THEN checked
                 ELSE IF t.enforceManifest
                 THEN [checked EXCEPT !.manifestChecked = TRUE,
                                      !.authorized = IsAuthorizedByPeerManifest(request, right, ps)]
                 ELSE [checked EXCEPT !.authorized = TRUE]
    ELSE base

IsAuthorized(request, pol, ps, pmo, authenticated) ==
    LET right == GenRight(request)
        t == ResolveTrust(ps, pmo, authenticated)
        pa == IsPeerAuthorized(request, pol, ps, t.trustedPeer, t.trustedPeerPublicKey,
                               t.issuerPublicKeys, right)
        base == [NoTrace EXCEPT !.called = TRUE, !.right = right]
    IN
    IF right # NoRight
    THEN IF ~pol.present THEN base
         ELSE LET checked == [base EXCEPT !.policyChecked = TRUE,
                                          !.trustedPeer = t.trustedPeer,
                                          !.trustedPeerPublicKey = t.trustedPeerPublicKey,
                                          !.issuerPublicKeys = t.issuerPublicKeys,
                                          !.enforceManifest = t.enforceManifest,
                                          !.byPolicy = pa.allowed,
                                          !.denied = pa.denied]
              IN IF pa.denied \/ ~pa.allowed THEN checked
                 ELSE IF t.enforceManifest
                 THEN [checked EXCEPT !.manifestChecked = TRUE,
                                      !.authorized = IsAuthorizedByPeerManifest(request, right, ps)]
                 ELSE [checked EXCEPT !.authorized = TRUE]
    ELSE base

(***************************************************************************)
(* Well-known interface names                                              *)
(***************************************************************************)
AllJoynBus == <<"org.alljoyn.Bus">>

AllJoynDaemon == <<"org.alljoyn.Daemon">>

FreedesktopDBus == <<"org.freedesktop.DBus">>

StdInterfaces ==
    { AllJoynBus,
      AllJoynDaemon,
      AllJoynDaemon \o <<".Debug">>,
      AllJoynBus \o <<".Peer", ".Authentication">>,
      AllJoynBus \o <<".Peer", ".Session">>,
      <<"org.allseen.Introspectable">>,
      AllJoynBus \o <<".Peer", ".HeaderCompression">>,
      FreedesktopDBus,
      FreedesktopDBus \o <<".Peer">>,
      FreedesktopDBus \o <<".Introspectable">> }

PropertiesInterface == FreedesktopDBus \o <<".Properties">>

ApplicationInterface == AllJoynBus \o <<".Security.Application">>

ClaimableApplicationInterface == AllJoynBus \o <<".Security.ClaimableApplication">>

ManagedApplicationInterface == AllJoynBus \o <<".Security.ManagedApplication">>

IsStdInterface(iName) == iName \in StdInterfaces

IsPropertyInterface(iName) == iName = PropertiesInterface

IsPermissionMgmtInterface(iName) ==
    iName \in {ApplicationInterface, ClaimableApplicationInterface, ManagedApplicationInterface}

(***************************************************************************)
(* Request construction and ParsePropertiesMessage.  A message is          *)
(* [type, objPath, iface, member, args]; args is a sequence of strings.     *)
(***************************************************************************)
\* Request(Message& msg, bool outgoing)
RequestFromMessage(msg, outgoing) ==
    [outgoing |-> outgoing, propertyRequest |-> FALSE, isSetProperty |-> FALSE,
     objPath |-> msg.objPath, iName |-> NullStr, mbrName |-> NullStr,
     mbrType |-> IF msg.type = "MESSAGE_METHOD_CALL" THEN "METHOD_CALL"
                 ELSE IF msg.type = "MESSAGE_SIGNAL" THEN "SIGNAL"
                 ELSE "NOT_SPECIFIED"]

\* Request(objPath, iName, mbrName, mbrType, outgoing, isProperty)
RequestFromFields(objPath, iName, mbrName, mbrType, outgoing, isProperty) ==
    [outgoing |-> outgoing, propertyRequest |-> isProperty, isSetProperty |-> FALSE,
     objPath |-> objPath, iName |-> iName, mbrName |-> mbrName, mbrType |-> mbrType]

\* _Message::GetArgs("s", &propIName): unmarshals exactly one string argument
MsgGetArgsS(msg) == IF Len(msg.args) = 1 THEN "ER_OK" ELSE "ER_INVALID_DATA"

\* A plausible slip: an unknown member of the Properties interface is let through.
ParsePropertiesMessageLenient(request, msg) ==
    LET mbrName == msg.member
        fail(st) == [status |-> st, request |-> request]
    IN
    IF HasPrefix(mbrName, <<"Get", "All">>)
    THEN LET status == IF request.outgoing
                       THEN (IF Len(msg.args) < 1 THEN "ER_INVALID_DATA" ELSE "ER_OK")
                       ELSE MsgGetArgsS(msg)
         IN IF status # "ER_OK" THEN fail(status)
            ELSE [status |-> "ER_OK",
                  request |-> [request EXCEPT !.propertyRequest = TRUE, !.mbrType = "PROPERTY",
                                              !.iName = msg.args[1], !.mbrName = NullStr]]
    ELSE IF HasPrefix(mbrName, <<"Get">>) \/ HasPrefix(mbrName, <<"Set">>)
    THEN IF Len(msg.args) < 2 THEN fail("ER_INVALID_DATA")
         ELSE [status |-> "ER_OK",
               request |-> [request EXCEPT !.propertyRequest = TRUE, !.mbrType = "PROPERTY",
                                           !.isSetProperty = HasPrefix(mbrName, <<"Set">>),
                                           !.iName = msg.args[1], !.mbrName = msg.args[2]]]
    ELSE IF HasPrefix(mbrName, <<"PropertiesChanged">>)
    THEN IF Len(msg.args) < 1 THEN fail("ER_INVALID_DATA")
         ELSE [status |-> "ER_OK",
               request |-> [request EXCEPT !.propertyRequest = TRUE, !.mbrType = "SIGNAL",
                                           !.iName = msg.args[1], !.mbrName = EmptyStr]]
    ELSE [status |-> "ER_OK",
          request |-> [request EXCEPT !.iName = msg.iface, !.mbrName = msg.member]]

\* A plausible slip: the prefix Get is tested before GetAll.
ParsePropertiesMessageGetFirst(request, msg) ==
    LET mbrName == msg.member
        fail(st) == [status |-> st, request |-> request]
    IN
    IF HasPrefix(mbrName, <<"Get">>) \/ HasPrefix(mbrName, <<"Set">>)
    THEN IF Len(msg.args) < 2 THEN fail("ER_INVALID_DATA")
         ELSE [status |-> "ER_OK",
               request |-> [request EXCEPT !.propertyRequest = TRUE, !.mbrType = "PROPERTY",
                                           !.isSetProperty = HasPrefix(mbrName, <<"Set">>),
                                           !.iName = msg.args[1], !.mbrName = msg.args[2]]]
    ELSE IF HasPrefix(mbrName, <<"PropertiesChanged">>)
    THEN IF Len(msg.args) < 1 THEN fail("ER_INVALID_DATA")
         ELSE [status |-> "ER_OK",
               request |-> [request EXCEPT !.propertyRequest = TRUE, !.mbrType = "SIGNAL",
                                           !.iName = msg.args[1], !.mbrName = EmptyStr]]
    ELSE fail("ER_FAIL")

ParsePropertiesMessage(request, msg) ==
    LET mbrName == msg.member
        fail(st) == [status |-> st, request |-> request]
    IN
    IF HasPrefix(mbrName, <<"Get", "All">>)
    THEN LET status == IF request.outgoing
                       THEN (IF Len(msg.args) < 1 THEN "ER_INVALID_DATA" ELSE "ER_OK")
                       ELSE MsgGetArgsS(msg)
         IN IF status # "ER_OK" THEN fail(status)
            ELSE [status |-> "ER_OK",
                  request |-> [request EXCEPT !.propertyRequest = TRUE, !.mbrType = "PROPERTY",
                                              !.iName = msg.args[1], !.mbrName = NullStr]]
    ELSE IF HasPrefix(mbrName, <<"Get">>) \/ HasPrefix(mbrName, <<"Set">>)
    THEN IF Len(msg.args) < 2 THEN fail("ER_INVALID_DATA")
         ELSE [status |-> "ER_OK",
               request |-> [request EXCEPT !.propertyRequest = TRUE, !.mbrType = "PROPERTY",
                                           !.isSetProperty = HasPrefix(mbrName, <<"Set">>),
                                           !.iName = msg.args[1], !.mbrName = msg.args[2]]]
    ELSE IF HasPrefix(mbrName, <<"PropertiesChanged">>)
    THEN IF Len(msg.args) < 1 THEN fail("ER_INVALID_DATA")
         ELSE [status |-> "ER_OK",
               request |-> [request EXCEPT !.propertyRequest = TRUE, !.mbrType = "SIGNAL",
                                           !.iName = msg.args[1], !.mbrName = EmptyStr]]
    ELSE fail("ER_FAIL")

\* ParsePropertiesMessageHeaders: [status, request, interfaceName, memberName];
\* a NULL interface or member name comes out as the empty string
ParsePropertiesMessageHeadersResult(msg) ==
    LET parsed == ParsePropertiesMessage(RequestFromMessage(msg, TRUE), msg)
        clear(str) == IF IsNull(str) THEN EmptyStr ELSE str
    IN
    IF parsed.status # "ER_OK"
    THEN [status |-> parsed.status, request |-> parsed.request,
          interfaceName |-> EmptyStr, memberName |-> EmptyStr]
    ELSE [status |-> "ER_OK", request |-> parsed.request,
          interfaceName |-> clear(parsed.request.iName),
          memberName |-> clear(parsed.request.mbrName)]

(***************************************************************************)
(* AuthorizePermissionMgmt: the gate of the permission-management          *)
(* interfaces.  The result is [handled, authorized].                       *)
(***************************************************************************)
ClaimSuites == {"AUTH_SUITE_ECDHE_NULL", "AUTH_SUITE_ECDHE_PSK", "AUTH_SUITE_ECDHE_SPEKE", "AUTH_SUITE_ECDHE_ECDSA"}

\* the CAPABLE_ECDHE_* bit the switch tests for a suite
CapabilityOf(authSuite) ==
    CASE authSuite = "AUTH_SUITE_ECDHE_NULL" -> "CAPABLE_ECDHE_NULL"
      [] authSuite = "AUTH_SUITE_ECDHE_PSK" -> "CAPABLE_ECDHE_PSK"
      [] authSuite = "AUTH_SUITE_ECDHE_SPEKE" -> "CAPABLE_ECDHE_SPEKE"
      [] authSuite = "AUTH_SUITE_ECDHE_ECDSA" -> "CAPABLE_ECDHE_ECDSA"
      [] OTHER -> "NONE"

AllCapabilities == {CapabilityOf(a) : a \in ClaimSuites}

\* lines 703-741: the Claim member of the claimable-application interface
AuthorizeClaim(pmo, ps) ==
    IF pmo.hasTrustAnchors THEN FALSE
    ELSE IF ps.isLocalPeer THEN TRUE
    ELSE IF pmo.capsStatus # "ER_OK" THEN FALSE
    ELSE IF ps.authSuite \in ClaimSuites THEN CapabilityOf(ps.authSuite) \in pmo.capabilities
    ELSE FALSE

DiscoveryWhitelist ==
    { <<"ManifestTemplate", "Digest">>, <<"EccPublicKey">>, <<"ManufacturerCertificate">>,
      <<"ManifestTemplate">>, <<"Claim", "Capabilit", "ies">>,
      <<"Claim", "Capabilit", "yAdditionalInfo">> }

\* A plausible slip: the claim capabilities are not consulted.
AuthorizePermissionMgmtNoCaps(outgoing, iName, mbrName, pmo, ps) ==
    LET handled(a) == [handled |-> TRUE, authorized |-> a]
        notHandled == [handled |-> FALSE, authorized |-> FALSE]
    IN
    IF outgoing THEN handled(TRUE)
    ELSE IF IsNull(mbrName) THEN notHandled
    ELSE IF iName = ClaimableApplicationInterface
    THEN IF HasPrefix(mbrName, <<"Version">>) THEN handled(TRUE)
         ELSE IF HasPrefix(mbrName, <<"Claim">>) THEN handled(~pmo.hasTrustAnchors)
         ELSE notHandled
    ELSE IF iName = ManagedApplicationInterface
    THEN IF ~pmo.hasTrustAnchors THEN handled(FALSE)
         ELSE IF HasPrefix(mbrName, <<"Version">>) THEN handled(TRUE)
         ELSE notHandled
    ELSE IF iName = ApplicationInterface
    THEN IF HasPrefix(mbrName, <<"Version">>) \/ HasPrefix(mbrName, <<"ApplicationState">>)
         THEN handled(TRUE)
         ELSE IF ~pmo.hasTrustAnchors /\ (\E w \in DiscoveryWhitelist : HasPrefix(mbrName, w))
         THEN handled(TRUE)
         ELSE notHandled
    ELSE notHandled

\* A plausible slip: the discovery whitelist stays open after the claim.
AuthorizePermissionMgmtWhitelistAlways(outgoing, iName, mbrName, pmo, ps) ==
    LET handled(a) == [handled |-> TRUE, authorized |-> a]
        notHandled == [handled |-> FALSE, authorized |-> FALSE]
    IN
    IF outgoing THEN handled(TRUE)
    ELSE IF IsNull(mbrName) THEN notHandled
    ELSE IF iName = ClaimableApplicationInterface
    THEN IF HasPrefix(mbrName, <<"Version">>) THEN handled(TRUE)
         ELSE IF HasPrefix(mbrName, <<"Claim">>) THEN handled(AuthorizeClaim(pmo, ps))
         ELSE notHandled
    ELSE IF iName = ManagedApplicationInterface
    THEN IF ~pmo.hasTrustAnchors THEN handled(FALSE)
         ELSE IF HasPrefix(mbrName, <<"Version">>) THEN handled(TRUE)
         ELSE notHandled
    ELSE IF iName = ApplicationInterface
    THEN IF HasPrefix(mbrName, <<"Version">>) \/ HasPrefix(mbrName, <<"ApplicationState">>)
         THEN handled(TRUE)
         ELSE IF \E w \in DiscoveryWhitelist : HasPrefix(mbrName, w)
         THEN handled(TRUE)
         ELSE notHandled
    ELSE notHandled

AuthorizePermissionMgmt(outgoing, iName, mbrName, pmo, ps) ==
    LET handled(a) == [handled |-> TRUE, authorized |-> a]
        notHandled == [handled |-> FALSE, authorized |-> FALSE]
    IN
    IF outgoing THEN handled(TRUE)
    ELSE IF IsNull(mbrName) THEN notHandled
    ELSE IF iName = ClaimableApplicationInterface
    THEN IF HasPrefix(mbrName, <<"Version">>) THEN handled(TRUE)
         ELSE IF HasPrefix(mbrName, <<"Claim">>) THEN handled(AuthorizeClaim(pmo, ps))
         ELSE notHandled
    ELSE IF iName = ManagedApplicationInterface
    THEN IF ~pmo.hasTrustAnchors THEN handled(FALSE)
         ELSE IF HasPrefix(mbrName, <<"Version">>) THEN handled(TRUE)
         ELSE notHandled
    ELSE IF iName = ApplicationInterface
    THEN IF HasPrefix(mbrName, <<"Version">>) \/ HasPrefix(mbrName, <<"ApplicationState">>)
         THEN handled(TRUE)
         ELSE IF ~pmo.hasTrustAnchors /\ (\E w \in DiscoveryWhitelist : HasPrefix(mbrName, w))
         THEN handled(TRUE)
         ELSE notHandled
    ELSE notHandled

(***************************************************************************)
(* AuthorizeMessage and AuthorizeGetProperty.  The result is what the call  *)
(* returned and what it went through: [status, classified, request,         *)
(* gateConsulted, handled, trace].                                          *)
(***************************************************************************)
NoRequest == RequestFromFields(EmptyStr, NullStr, NullStr, "NOT_SPECIFIED", FALSE, FALSE)

Verdict(status, classified, request, gateConsulted, handled, trace) ==
    [status |-> status, classified |-> classified, request |-> request,
     gateConsulted |-> gateConsulted, handled |-> handled, trace |-> trace]

\* lines 794-803: the request of a method call or signal
ClassifyMessage(msg, outgoing) ==
    LET request == RequestFromMessage(msg, outgoing) IN
    IF IsPropertyInterface(msg.iface)
    THEN ParsePropertiesMessage(request, msg)
    ELSE [status |-> "ER_OK",
          request |-> [request EXCEPT !.iName = msg.iface, !.mbrName = msg.member]]

\* A plausible slip: the unclaimed rule is left out and the policy decides.
AuthorizeRequestNoUnclaimedRule(outgoing, request, pmo, pol, ps, authenticated) ==
    LET isPermissionMgmt == IsPermissionMgmtInterface(request.iName)
        gate == IF isPermissionMgmt
                THEN AuthorizePermissionMgmt(outgoing, request.iName, request.mbrName, pmo, ps)
                ELSE [handled |-> FALSE, authorized |-> FALSE]
    IN
    IF ~pmo.present
    THEN Verdict("ER_PERMISSION_DENIED", TRUE, request, FALSE, FALSE, NoTrace)
    ELSE IF gate.handled
    THEN Verdict(IF gate.authorized THEN "ER_OK" ELSE "ER_PERMISSION_DENIED",
                 TRUE, request, TRUE, TRUE, NoTrace)
    ELSE LET t == IsAuthorized(request, pol, ps, pmo, authenticated) IN
         Verdict(IF t.authorized THEN "ER_OK" ELSE "ER_PERMISSION_DENIED",
                 TRUE, request, isPermissionMgmt, FALSE, t)

\* lines 804-837: the verdict for a classified request
\* A plausible slip: what the gate allows is still put to the policy.
AuthorizeRequestGateThenPolicy(outgoing, request, pmo, pol, ps, authenticated) ==
    LET isPermissionMgmt == IsPermissionMgmtInterface(request.iName)
        gate == IF isPermissionMgmt
                THEN AuthorizePermissionMgmt(outgoing, request.iName, request.mbrName, pmo, ps)
                ELSE [handled |-> FALSE, authorized |-> FALSE]
        t == IsAuthorized(request, pol, ps, pmo, authenticated)
    IN
    IF ~pmo.present
    THEN Verdict("ER_PERMISSION_DENIED", TRUE, request, FALSE, FALSE, NoTrace)
    ELSE IF gate.handled
    THEN Verdict(IF gate.authorized /\ (~pmo.hasTrustAnchors \/ t.authorized)
                 THEN "ER_OK" ELSE "ER_PERMISSION_DENIED",
                 TRUE, request, TRUE, TRUE, NoTrace)
    ELSE IF ~pmo.hasTrustAnchors
    THEN Verdict(IF isPermissionMgmt /\ request.mbrType = "METHOD_CALL"
                 THEN "ER_PERMISSION_DENIED" ELSE "ER_OK",
                 TRUE, request, isPermissionMgmt, FALSE, NoTrace)
    ELSE Verdict(IF t.authorized THEN "ER_OK" ELSE "ER_PERMISSION_DENIED",
                 TRUE, request, isPermissionMgmt, FALSE, t)

AuthorizeRequest(outgoing, request, pmo, pol, ps, authenticated) ==
    LET isPermissionMgmt == IsPermissionMgmtInterface(request.iName)
        gate == IF isPermissionMgmt
                THEN AuthorizePermissionMgmt(outgoing, request.iName, request.mbrName, pmo, ps)
                ELSE [handled |-> FALSE, authorized |-> FALSE]
    IN
    IF ~pmo.present
    THEN Verdict("ER_PERMISSION_DENIED", TRUE, request, FALSE, FALSE, NoTrace)
    ELSE IF gate.handled
    THEN Verdict(IF gate.authorized THEN "ER_OK" ELSE "ER_PERMISSION_DENIED",
                 TRUE, request, TRUE, TRUE, NoTrace)
    ELSE IF ~pmo.hasTrustAnchors
    THEN Verdict(IF isPermissionMgmt /\ request.mbrType = "METHOD_CALL"
                 THEN "ER_PERMISSION_DENIED" ELSE "ER_OK",
                 TRUE, request, isPermissionMgmt, FALSE, NoTrace)
    ELSE LET t == IsAuthorized(request, pol, ps, pmo, authenticated) IN
         Verdict(IF t.authorized THEN "ER_OK" ELSE "ER_PERMISSION_DENIED",
                 TRUE, request, isPermissionMgmt, FALSE, t)

\* A plausible slip: the permission-management object is tested first.
AuthorizeMessageResultObjFirst(outgoing, msg, pmo, pol, ps, authenticated) ==
    IF ~pmo.present
    THEN Verdict("ER_PERMISSION_DENIED", FALSE, NoRequest, FALSE, FALSE, NoTrace)
    ELSE IF msg.type \notin {"MESSAGE_METHOD_CALL", "MESSAGE_SIGNAL"}
    THEN Verdict("ER_OK", FALSE, NoRequest, FALSE, FALSE, NoTrace)
    ELSE IF IsStdInterface(msg.iface)
    THEN Verdict("ER_OK", FALSE, NoRequest, FALSE, FALSE, NoTrace)
    ELSE LET parsed == ClassifyMessage(msg, outgoing) IN
         IF parsed.status # "ER_OK"
         THEN Verdict(parsed.status, FALSE, parsed.request, FALSE, FALSE, NoTrace)
         ELSE AuthorizeRequest(outgoing, parsed.request, pmo, pol, ps, authenticated)

AuthorizeMessageResult(outgoing, msg, pmo, pol, ps, authenticated) ==
    IF msg.type \notin {"MESSAGE_METHOD_CALL", "MESSAGE_SIGNAL"}
    THEN Verdict("ER_OK", FALSE, NoRequest, FALSE, FALSE, NoTrace)
    ELSE IF IsStdInterface(msg.iface)
    THEN Verdict("ER_OK", FALSE, NoRequest, FALSE, FALSE, NoTrace)
    ELSE LET parsed == ClassifyMessage(msg, outgoing) IN
         IF parsed.status # "ER_OK"
         THEN Verdict(parsed.status, FALSE, parsed.request, FALSE, FALSE, NoTrace)
         ELSE AuthorizeRequest(outgoing, parsed.request, pmo, pol, ps, authenticated)

AuthorizeGetPropertyResult(objPath, ifcName, propName, pmo, pol, ps) ==
    LET request == RequestFromFields(objPath, ifcName, propName, "PROPERTY", FALSE, TRUE) IN
    IF ~pmo.present
    THEN Verdict("ER_PERMISSION_DENIED", FALSE, request, FALSE, FALSE, NoTrace)
    ELSE IF ~pmo.hasTrustAnchors
    THEN Verdict("ER_OK", TRUE, request, FALSE, FALSE, NoTrace)
    ELSE LET t == IsAuthorized(request, pol, ps, pmo, TRUE) IN
         Verdict(IF t.authorized THEN "ER_OK" ELSE "ER_PERMISSION_DENIED",
                 TRUE, request, FALSE, FALSE, t)

(***************************************************************************)
(* The state machine.  permissionMgmtObj, policy and peerState are what the *)
(* permission manager and the peer hold; out is the call in progress: the   *)
(* entry point called, its arguments and the result it is about to return.  *)
(***************************************************************************)
NoMsg == [type |-> "MESSAGE_INVALID", objPath |-> EmptyStr, iface |-> EmptyStr,
          member |-> EmptyStr, args |-> <<>>]

Idle ==
    [op |-> "idle", outgoing |-> FALSE, authenticated |-> TRUE, msg |-> NoMsg,
     result |-> Verdict("ER_OK", FALSE, NoRequest, FALSE, FALSE, NoTrace)]

\* A plausible slip: the evaluation uses the peer's manifests up.
AuthorizeMessageConsumesManifests(outgoing, msg, authenticated) ==
    /\ out = Idle
    /\ out' = [op |-> "AuthorizeMessage", outgoing |-> outgoing,
               authenticated |-> authenticated, msg |-> msg,
               result |-> AuthorizeMessageResult(outgoing, msg, permissionMgmtObj, policy,
                                                 peerState, authenticated)]
    /\ peerState' = [peerState EXCEPT !.manifests = <<>>]
    /\ UNCHANGED <<permissionMgmtObj, policy, permissionMgmt, nameTable>>

AuthorizeMessage(outgoing, msg, authenticated) ==
    /\ out = Idle
    /\ out' = [op |-> "AuthorizeMessage", outgoing |-> outgoing,
               authenticated |-> authenticated, msg |-> msg,
               result |-> AuthorizeMessageResult(outgoing, msg, permissionMgmtObj, policy,
                                                 peerState, authenticated)]
    /\ UNCHANGED <<permissionMgmtObj, policy, peerState, permissionMgmt, nameTable>>

AuthorizeGetProperty(objPath, ifcName, propName) ==
    /\ out = Idle
    /\ out' = [op |-> "AuthorizeGetProperty", outgoing |-> FALSE, authenticated |-> TRUE,
               msg |-> NoMsg,
               result |-> AuthorizeGetPropertyResult(objPath, ifcName, propName,
                                                     permissionMgmtObj, policy, peerState)]
    /\ UNCHANGED <<permissionMgmtObj, policy, peerState, permissionMgmt, nameTable>>

ParsePropertiesMessageHeaders(msg) ==
    /\ out = Idle
    /\ LET h == ParsePropertiesMessageHeadersResult(msg) IN
       out' = [op |-> "ParsePropertiesMessageHeaders", outgoing |-> TRUE, authenticated |-> TRUE,
               msg |-> msg,
               result |-> [status |-> h.status, classified |-> h.status = "ER_OK",
                           request |-> h.request, gateConsulted |-> FALSE, handled |-> FALSE,
                           trace |-> NoTrace, interfaceName |-> h.interfaceName,
                           memberName |-> h.memberName]]
    /\ UNCHANGED <<permissionMgmtObj, policy, peerState, permissionMgmt, nameTable>>

\* the caller calls the same entry point once more with the same arguments
AuthorizeMessageAgain ==
    /\ out.op = "AuthorizeMessage"
    /\ out' = [out EXCEPT !.op = "AuthorizeMessageAgain",
                          !.result = AuthorizeMessageResult(out.outgoing, out.msg, permissionMgmtObj,
                                                            policy, peerState, out.authenticated)]
    /\ UNCHANGED <<permissionMgmtObj, policy, peerState, permissionMgmt, nameTable>>

AuthorizeGetPropertyAgain ==
    /\ out.op = "AuthorizeGetProperty"
    /\ out' = [out EXCEPT !.op = "AuthorizeGetPropertyAgain",
                          !.result = AuthorizeGetPropertyResult(out.result.request.objPath,
                                                                out.result.request.iName,
                                                                out.result.request.mbrName,
                                                                permissionMgmtObj, policy, peerState)]
    /\ UNCHANGED <<permissionMgmtObj, policy, peerState, permissionMgmt, nameTable>>

\* the call returns its status to the caller
Return ==
    /\ out # Idle
    /\ out' = Idle
    /\ UNCHANGED <<permissionMgmtObj, policy, peerState, permissionMgmt, nameTable>>

(***************************************************************************)
(* PermissionMgmt, the permission-management bus object of an application. *)
(* permissionMgmt is [claimableState, pubKeyRoTs, cl]: the claim state, the *)
(* list of root-of-trust keys, and whether a claim listener is registered.  *)
(* A Claim message carries arg: "none" (no argument 0), "not a key" (the    *)
(* argument does not unmarshal as two byte arrays), "short key" (a          *)
(* coordinate of the wrong size) or a key.                                  *)
(***************************************************************************)
\* the largest number of root-of-trust keys kept
MaxRoTs == 2

\* the constructor
NewPermissionMgmt(cl) == [claimableState |-> "UNCLAIMED", pubKeyRoTs |-> <<>>, cl |-> cl]

\* PermissionMgmt::Claim; accepts is the answer of the listener's
\* OnClaimRequest.  The result is [mgmt, reply]: the object after the call and
\* the reply sent ("none" when the handler returns without replying)
ClaimResult(mgmt, arg, accepts) ==
    LET error == [mgmt |-> mgmt, reply |-> "ClaimError"]
        pushed == [mgmt EXCEPT !.pubKeyRoTs = Append(@, arg)]
    IN
    IF mgmt.claimableState # "CLAIMABLE" THEN error
    ELSE IF arg = "none" THEN error
    ELSE IF arg = "not a key" THEN error
    ELSE IF arg = "short key" THEN error
    ELSE IF mgmt.cl /\ ~accepts THEN [mgmt |-> pushed, reply |-> "none"]
    ELSE [mgmt |-> IF mgmt.cl THEN [pushed EXCEPT !.claimableState = "CLAIMED"] ELSE pushed,
          reply |-> "METHOD_RET"]

Claim(arg, accepts) ==
    /\ out = Idle
    /\ Len(permissionMgmt.pubKeyRoTs) < MaxRoTs
    /\ LET r == ClaimResult(permissionMgmt, arg, accepts) IN
       /\ permissionMgmt' = r.mgmt
       /\ out' = [op |-> "Claim", arg |-> arg, accepts |-> accepts, reply |-> r.reply]
    /\ UNCHANGED <<permissionMgmtObj, policy, peerState, nameTable>>

SetClaimableState(on) ==
    /\ out = Idle
    /\ permissionMgmt' =
          [permissionMgmt EXCEPT !.claimableState =
              IF on THEN "CLAIMABLE"
              ELSE IF Len(permissionMgmt.pubKeyRoTs) # 0 THEN "CLAIMED" ELSE "UNCLAIMED"]
    /\ out' = [op |-> "SetClaimableState", on |-> on]
    /\ UNCHANGED <<permissionMgmtObj, policy, peerState, nameTable>>

(***************************************************************************)
(* NameTable.  uniqueNames is the set of unique names that have an         *)
(* endpoint; aliasNames maps each well-known name present to its queue of   *)
(* entries [endpointName, flags], the first being the primary owner; flags  *)
(* is a set of DBUS_NAME_FLAG names.  RemoveUniqueName releases the lock    *)
(* around each call of RemoveAlias: removals holds, for each thread, where  *)
(* its RemoveUniqueName stands, and last the call that returned last.       *)
(***************************************************************************)
\* the longest queue of a well-known name
MaxQueue == 3

UniqueNameSet == {":1", ":2"}

AliasNameSet == {"a", "b"}

Threads == {"t1", "t2"}

\* the flags of a request: one that lets a later request replace it and is
\* queued itself, one that replaces such an owner and else is not queued
NameFlagSets == { {"ALLOW_REPLACEMENT"}, {"REPLACE_EXISTING", "DO_NOT_QUEUE"} }

NoAlias == "none"

NoRemoval ==
    [pc |-> "idle", uniqueName |-> "none", alias |-> NoAlias, disposition |-> "unset"]

NoCall == [op |-> "none", name |-> "none", found |-> FALSE, assertFailed |-> FALSE]

\* the table after construction
NewNameTable ==
    [uniqueNames |-> {}, aliasNames |-> [a \in {} |-> <<>>],
     removals |-> [th \in Threads |-> NoRemoval], last |-> NoCall]

\* aliasNames.erase(a) and aliasNames[a] = q
Erase(m, a) == [x \in DOMAIN m \ {a} |-> m[x]]

Put(m, a, q) == [x \in DOMAIN m \cup {a} |-> IF x = a THEN q ELSE m[x]]

\* NameTable::AddAlias under the lock: [aliasNames, status, disposition]
AddAliasResult(t, aliasName, uniqueName, flags) ==
    LET entry == [endpointName |-> uniqueName, flags |-> flags]
        same(status, disposition) ==
            [aliasNames |-> t.aliasNames, status |-> status, disposition |-> disposition]
    IN
    IF uniqueName \notin t.uniqueNames THEN same("ER_BUS_NO_ENDPOINT", "unset")
    ELSE IF aliasName \in DOMAIN t.aliasNames
    THEN LET queue == t.aliasNames[aliasName] IN
         IF queue = <<>> THEN same("assert", "unset")
         ELSE IF queue[1].endpointName = uniqueName
         THEN same("ER_OK", "DBUS_REQUEST_NAME_REPLY_ALREADY_OWNER")
         ELSE IF "ALLOW_REPLACEMENT" \in queue[1].flags /\ "REPLACE_EXISTING" \in flags
         THEN [aliasNames |-> Put(t.aliasNames, aliasName, <<entry>> \o queue),
               status |-> "ER_OK", disposition |-> "DBUS_REQUEST_NAME_REPLY_PRIMARY_OWNER"]
         ELSE IF "DO_NOT_QUEUE" \in flags
         THEN same("ER_OK", "DBUS_REQUEST_NAME_REPLY_EXISTS")
         ELSE [aliasNames |-> Put(t.aliasNames, aliasName, Append(queue, entry)),
               status |-> "ER_OK", disposition |-> "DBUS_REQUEST_NAME_REPLY_IN_QUEUE"]
    ELSE [aliasNames |-> Put(t.aliasNames, aliasName, <<entry>>),
          status |-> "ER_OK", disposition |-> "DBUS_REQUEST_NAME_REPLY_PRIMARY_OWNER"]

\* NameTable::RemoveAlias under the lock: [aliasNames, disposition]
RemoveAliasResult(t, aliasName, ownerName) ==
    IF aliasName \in DOMAIN t.aliasNames
    THEN LET queue == t.aliasNames[aliasName] IN
         IF queue = <<>> THEN [aliasNames |-> t.aliasNames, disposition |-> "assert"]
         ELSE IF queue[1].endpointName = ownerName
         THEN LET popped == IF Len(queue) > 1 THEN Tail(queue) ELSE queue
                  hasNewOwner == Len(queue) > 1 /\ popped[1].endpointName \in t.uniqueNames
              IN [aliasNames |-> IF hasNewOwner THEN Put(t.aliasNames, aliasName, popped)
                                 ELSE Erase(t.aliasNames, aliasName),
                  disposition |-> "DBUS_RELEASE_NAME_REPLY_RELEASED"]
         ELSE [aliasNames |-> t.aliasNames, disposition |-> "DBUS_RELEASE_NAME_REPLY_NOT_OWNER"]
    ELSE [aliasNames |-> t.aliasNames, disposition |-> "DBUS_RELEASE_NAME_REPLY_NON_EXISTENT"]

\* NameTable::FindEndpoint: the unique name of the endpoint found, "none"
\* for an invalid endpoint, "assert" when the assertion fails
FindEndpointResult(t, busName) ==
    IF busName \in UniqueNameSet
    THEN (IF busName \in t.uniqueNames THEN busName ELSE "none")
    ELSE IF busName \in DOMAIN t.aliasNames
    THEN IF t.aliasNames[busName] = <<>> THEN "assert"
         ELSE IF t.aliasNames[busName][1].endpointName \in t.uniqueNames
         THEN t.aliasNames[busName][1].endpointName
         ELSE "none"
    ELSE "none"

\* the position of the first entry of the queue that names u, 0 when none does
FirstEntryOf(queue, u) ==
    IF \E i \in DOMAIN queue : queue[i].endpointName = u
    THEN CHOOSE i \in DOMAIN queue :
            /\ queue[i].endpointName = u
            /\ \A j \in 1..(i - 1) : queue[j].endpointName # u
    ELSE 0

\* the loops of RemoveUniqueName if the inner loop erased the entry of u at
\* the front of a queue as it erases the others
RECURSIVE ScanAliasesErasesPrimary(_, _, _, _)
ScanAliasesErasesPrimary(aliasNames, u, order, k) ==
    IF k > Len(order) THEN [aliasNames |-> aliasNames, hit |-> NoAlias]
    ELSE LET queue == aliasNames[order[k]]
             lit == FirstEntryOf(queue, u)
         IN IF lit = 0 THEN ScanAliasesErasesPrimary(aliasNames, u, order, k + 1)
            ELSE ScanAliasesErasesPrimary(
                     Put(aliasNames, order[k],
                         SubSeq(queue, 1, lit - 1) \o SubSeq(queue, lit + 1, Len(queue))),
                     u, order, k + 1)

\* the loops of RemoveUniqueName from alias number k of the iteration order
\* up to the first queue whose primary owner is u: [aliasNames, hit, rest]
RECURSIVE ScanAliases(_, _, _, _)
ScanAliases(aliasNames, u, order, k) ==
    IF k > Len(order) THEN [aliasNames |-> aliasNames, hit |-> NoAlias]
    ELSE LET queue == aliasNames[order[k]]
             lit == FirstEntryOf(queue, u)
         IN IF lit = 0 THEN ScanAliases(aliasNames, u, order, k + 1)
            ELSE IF lit = 1 THEN [aliasNames |-> aliasNames, hit |-> order[k]]
            ELSE ScanAliases(Put(aliasNames, order[k],
                                 SubSeq(queue, 1, lit - 1) \o SubSeq(queue, lit + 1, Len(queue))),
                             u, order, k + 1)

\* the orders in which an iteration from begin() may visit the names present
IterationOrders(aliasNames) ==
    { f \in [1..Cardinality(DOMAIN aliasNames) -> DOMAIN aliasNames] :
        \A i, j \in DOMAIN f : i # j => f[i] # f[j] }

\* the orders in which an iteration may go on from an iterator that was kept
\* across the unlocked call: some of the names present, each once
ResumedOrders(aliasNames) ==
    UNION { { f \in [1..Cardinality(S) -> S] : \A i, j \in DOMAIN f : i # j => f[i] # f[j] } :
            S \in SUBSET DOMAIN aliasNames }

\* what last keeps of a call that returned: of RemoveUniqueName its name and
\* whether the name was found, of every call whether an assertion failed
Returned(op, name, found, assertFailed) ==
    [op |-> op, name |-> name, found |-> found, assertFailed |-> assertFailed]

AddUniqueName(th, uniqueName) ==
    /\ nameTable.removals[th].pc = "idle"
    /\ nameTable' = [nameTable EXCEPT !.uniqueNames = @ \cup {uniqueName},
                                      !.last = Returned("AddUniqueName", "none", FALSE, FALSE)]
    /\ UNCHANGED <<permissionMgmtObj, policy, peerState, out, permissionMgmt>>

AddAlias(th, aliasName, uniqueName, flags) ==
    /\ nameTable.removals[th].pc = "idle"
    /\ aliasName \in DOMAIN nameTable.aliasNames => Len(nameTable.aliasNames[aliasName]) < MaxQueue
    /\ LET r == AddAliasResult(nameTable, aliasName, uniqueName, flags) IN
       nameTable' = [nameTable EXCEPT !.aliasNames = r.aliasNames,
                                      !.last = Returned("AddAlias", "none", FALSE,
                                                        r.status = "assert")]
    /\ UNCHANGED <<permissionMgmtObj, policy, peerState, out, permissionMgmt>>

RemoveAlias(th, aliasName, ownerName) ==
    /\ nameTable.removals[th].pc = "idle"
    /\ LET r == RemoveAliasResult(nameTable, aliasName, ownerName) IN
       nameTable' = [nameTable EXCEPT !.aliasNames = r.aliasNames,
                                      !.last = Returned("RemoveAlias", "none", FALSE,
                                                        r.disposition = "assert")]
    /\ UNCHANGED <<permissionMgmtObj, policy, peerState, out, permissionMgmt>>

FindEndpoint(th, busName) ==
    /\ nameTable.removals[th].pc = "idle"
    /\ LET ep == FindEndpointResult(nameTable, busName) IN
       nameTable' = [nameTable EXCEPT !.last = Returned("FindEndpoint", "none", FALSE, ep = "assert")]
    /\ UNCHANGED <<permissionMgmtObj, policy, peerState, out, permissionMgmt>>

\* RemoveUniqueName for thread th after a scan that began at order: either the
\* scan met a queue that u owns and the lock is released for RemoveAlias, or
\* the loops are over, u is erased if its iterator is valid and the call
\* returns
RemoveUniqueNameScan(th, uniqueName, order, itValid) ==
    LET s == ScanAliases(nameTable.aliasNames, uniqueName, order, 1) IN
    IF s.hit # NoAlias
    THEN nameTable' =
            [nameTable EXCEPT !.aliasNames = s.aliasNames,
                              !.removals[th] =
                                  [pc |-> "unlocked", uniqueName |-> uniqueName, alias |-> s.hit,
                                   disposition |-> "unset"]]
    ELSE nameTable' =
            [nameTable EXCEPT !.aliasNames = s.aliasNames,
                              !.uniqueNames = IF itValid THEN @ \ {uniqueName} ELSE @,
                              !.removals[th] = NoRemoval,
                              !.last = Returned("RemoveUniqueName", uniqueName, TRUE, FALSE)]

\* RemoveUniqueName from its entry to its return or to its first unlock
RemoveUniqueNameBegin(th, uniqueName) ==
    /\ nameTable.removals[th].pc = "idle"
    /\ IF uniqueName \in nameTable.uniqueNames
       THEN \E order \in IterationOrders(nameTable.aliasNames) :
               RemoveUniqueNameScan(th, uniqueName, order, TRUE)
       ELSE nameTable' = [nameTable EXCEPT !.last = Returned("RemoveUniqueName", uniqueName, FALSE,
                                                             FALSE)]
    /\ UNCHANGED <<permissionMgmtObj, policy, peerState, out, permissionMgmt>>

\* the call of RemoveAlias that RemoveUniqueName makes without the lock
RemoveUniqueNameRelease(th) ==
    /\ nameTable.removals[th].pc = "unlocked"
    /\ LET c == nameTable.removals[th]
           r == RemoveAliasResult(nameTable, c.alias, c.uniqueName)
       IN nameTable' =
            [nameTable EXCEPT !.aliasNames = r.aliasNames,
                              !.removals[th] =
                                  [c EXCEPT !.pc = "released", !.disposition = r.disposition]]
    /\ UNCHANGED <<permissionMgmtObj, policy, peerState, out, permissionMgmt>>

\* RemoveUniqueName from taking the lock again to its return or next unlock
RemoveUniqueNameResume(th) ==
    /\ nameTable.removals[th].pc = "released"
    /\ LET c == nameTable.removals[th]
           itValid == c.uniqueName \in nameTable.uniqueNames
       IN IF itValid /\ c.disposition = "DBUS_RELEASE_NAME_REPLY_RELEASED"
          THEN \E order \in IterationOrders(nameTable.aliasNames) :
                  RemoveUniqueNameScan(th, c.uniqueName, order, itValid)
          ELSE \E order \in ResumedOrders(nameTable.aliasNames) :
                  RemoveUniqueNameScan(th, c.uniqueName, order, itValid)
    /\ UNCHANGED <<permissionMgmtObj, policy, peerState, out, permissionMgmt>>

(***************************************************************************)
(* Bounded input families                                                  *)
(***************************************************************************)
\* the largest number of members, over all rules, of a generated policy or manifest list
MaxMembersTotal == 2

Member(name, type, mask) == [memberName |-> name, memberType |-> type, actionMask |-> mask]

Rule(objPath, iName, members) == [objPath |-> objPath, interfaceName |-> iName, members |-> members]

Peer(type, keyInfo, sgId) == [type |-> type, keyInfo |-> keyInfo, securityGroupId |-> sgId]

Acl(peers, rules) == [peers |-> peers, rules |-> rules]

Seqs(S, n) == [1..n -> S]

\* sequences of non-empty rules with n members in all
RECURSIVE RuleSeqsOfWeight(_, _, _)
RuleSeqsOfWeight(names, pool, n) ==
    IF n = 0 THEN {<<>>}
    ELSE UNION { { <<Rule(pi[1], pi[2], ms)>> \o rest :
                     pi \in names, ms \in Seqs(pool, k), rest \in RuleSeqsOfWeight(names, pool, n - k) }
                 : k \in 1..n }

\* sequences of ACLs with at least one rule each and n members in all
RECURSIVE AclSeqsOfWeight(_, _, _, _)
AclSeqsOfWeight(peerSeqs, names, pool, n) ==
    IF n = 0 THEN {<<>>}
    ELSE UNION { { <<Acl(ps, rs)>> \o rest :
                     ps \in peerSeqs, rs \in RuleSeqsOfWeight(names, pool, k) \ {<<>>},
                     rest \in AclSeqsOfWeight(peerSeqs, names, pool, n - k) }
                 : k \in 1..n }

\* sequences of manifests with at least one rule each and n members in all
RECURSIVE ManifestSeqsOfWeight(_, _, _)
ManifestSeqsOfWeight(names, pool, n) ==
    IF n = 0 THEN {<<>>}
    ELSE UNION { { <<rs>> \o rest :
                     rs \in RuleSeqsOfWeight(names, pool, k) \ {<<>>},
                     rest \in ManifestSeqsOfWeight(names, pool, n - k) }
                 : k \in 1..n }

NoPolicy == [present |-> FALSE, acls |-> <<>>]

PolicyOf(acls) == [present |-> TRUE, acls |-> acls]

PathA == <<"/", "a">>

IfaceI == <<"i">>

MemberM == <<"m">>

\* wildcard deny, wildcard grant, a deny for method calls only, a grant for member m
DenyStar == Member(Star, "NOT_SPECIFIED", {})

GrantStar == Member(Star, "NOT_SPECIFIED", AllActions)

DenyStarMethod == Member(Star, "METHOD_CALL", {})

GrantM == Member(MemberM, "NOT_SPECIFIED", AllActions)

KeyOnePeer == Peer("PEER_WITH_PUBLIC_KEY", "K1", "none")

AllPeer == Peer("PEER_ALL", NoKeyInfo, "none")

AnyTrustedPeer == Peer("PEER_ANY_TRUSTED", NoKeyInfo, "none")

AllowAllPolicy == PolicyOf(<<Acl(<<AllPeer>>, <<Rule(Star, Star, <<GrantStar>>)>>)>>)

AllowAllManifest == <<Rule(Star, Star, <<GrantStar>>)>>

ClaimedObj ==
    [present |-> TRUE, hasTrustAnchors |-> TRUE, publicKeyStatus |-> "ER_OK",
     publicKey |-> "K1", capsStatus |-> "ER_OK", capabilities |-> {}]

RemotePeer(keyFound, key, mechanism, manifests) ==
    [isLocalPeer |-> FALSE, authSuite |-> "AUTH_SUITE_ECDHE_ECDSA", manifests |-> manifests,
     guildMap |-> <<>>, metaStatus |-> "ER_OK", publicKeyFound |-> keyFound,
     authMechanism |-> mechanism, publicKey |-> key, issuerPublicKeys |-> <<>>]

LocalPeer ==
    [isLocalPeer |-> TRUE, authSuite |-> "AUTH_SUITE_ECDHE_NULL", manifests |-> <<>>,
     guildMap |-> <<>>, metaStatus |-> "ER_OK", publicKeyFound |-> FALSE,
     authMechanism |-> "none", publicKey |-> NoKey, issuerPublicKeys |-> <<>>]

MethodCall(iface, member) ==
    [type |-> "MESSAGE_METHOD_CALL", objPath |-> PathA, iface |-> iface, member |-> member, args |-> <<>>]

Signal(iface, member) ==
    [type |-> "MESSAGE_SIGNAL", objPath |-> PathA, iface |-> iface, member |-> member, args |-> <<>>]

PropertiesCall(member, args) ==
    [type |-> "MESSAGE_METHOD_CALL", objPath |-> PathA, iface |-> PropertiesInterface,
     member |-> member, args |-> args]

PropertiesSignal(member, args) ==
    [type |-> "MESSAGE_SIGNAL", objPath |-> PathA, iface |-> PropertiesInterface,
     member |-> member, args |-> args]

(***************************************************************************)
(* SpecPolicy: a claimed application, policies of every shape up to         *)
(* MaxMembersTotal members, and one-rule policies over every member.        *)
(***************************************************************************)
PolicyPeerSeqs == { <<KeyOnePeer>>, <<AllPeer>>, <<AllPeer, KeyOnePeer>> }

PolicyRuleNames == { <<Star, Star>>, <<PathA, IfaceI>> }

PolicyMemberPool == { DenyStar, GrantStar, DenyStarMethod }

ShapedPolicies ==
    { PolicyOf(acls) :
        acls \in UNION { AclSeqsOfWeight(PolicyPeerSeqs, PolicyRuleNames, PolicyMemberPool, n)
                         : n \in 0..MaxMembersTotal } }

AnyMember ==
    { Member(name, type, mask) :
        name \in {EmptyStr, Star, MemberM, <<"m", "*">>},
        type \in MemberTypes,
        mask \in {{}, ACTION_PROVIDE, ACTION_OBSERVE, ACTION_MODIFY, AllActions} }

OneRulePolicies ==
    { PolicyOf(<<Acl(<<p>>, <<Rule(pi[1], pi[2], ms)>>)>>) :
        p \in {KeyOnePeer, AnyTrustedPeer},
        pi \in { <<Star, Star>>, <<Star, IfaceI>>, <<PathA, Star>> },
        ms \in UNION { { <<m>>, <<m, GrantStar>>, <<GrantStar, m>> } : m \in AnyMember } }

PolicyPeers ==
    { RemotePeer(TRUE, "K1", "ALLJOYN_ECDHE_ECDSA", <<AllowAllManifest>>),
      RemotePeer(TRUE, "K2", "ALLJOYN_ECDHE_ECDSA", <<AllowAllManifest>>),
      LocalPeer }

PolicyMsgs ==
    { MethodCall(IfaceI, MemberM),
      Signal(IfaceI, MemberM),
      PropertiesCall(<<"Get", "All">>, <<IfaceI>>),
      PropertiesCall(<<"Get">>, <<IfaceI, MemberM>>),
      PropertiesCall(<<"Set">>, <<IfaceI, MemberM>>),
      PropertiesSignal(<<"PropertiesChanged">>, <<IfaceI>>) }

InitPolicy ==
    /\ permissionMgmtObj = ClaimedObj
    /\ policy \in ShapedPolicies \cup OneRulePolicies \cup {NoPolicy}
    /\ peerState \in PolicyPeers
    /\ permissionMgmt = NewPermissionMgmt(FALSE)
    /\ nameTable = NewNameTable
    /\ out = Idle

NextPolicy ==
    \/ \E outgoing \in BOOLEAN, msg \in PolicyMsgs : AuthorizeMessage(outgoing, msg, TRUE)
    \/ \E propName \in {MemberM, NullStr} : AuthorizeGetProperty(PathA, IfaceI, propName)
    \/ Return

SpecPolicy == InitPolicy /\ [][NextPolicy]_vars

(***************************************************************************)
(* Readings of the result of the call in progress                          *)
(***************************************************************************)
Called == out.op # "idle"

Req == out.result.request

Trace == out.result.trace

\* the request has an empty (or NULL) member name
MbrNameEmpty(request) == IsNull(request.mbrName) \/ request.mbrName = EmptyStr

\* entry p of an ACL, taken alone, admits the peer of the call in progress
EntryAdmitsPeer(p) ==
    \/ p.type = "PEER_ALL"
    \/ /\ Trace.trustedPeer
       /\ \/ p.type = "PEER_ANY_TRUSTED"
          \/ /\ Trace.trustedPeerPublicKey # NoKey
             /\ \/ p.type = "PEER_WITH_PUBLIC_KEY" /\ p.keyInfo = Trace.trustedPeerPublicKey
                \/ /\ p.type = "PEER_FROM_CERTIFICATE_AUTHORITY"
                   /\ p.keyInfo \in {Trace.issuerPublicKeys[i] : i \in DOMAIN Trace.issuerPublicKeys}
                \/ /\ p.type = "PEER_WITH_MEMBERSHIP"
                   /\ HasMembership(peerState.guildMap, p.securityGroupId)

\* the first entry of the ACL that admits the peer is a PEER_WITH_PUBLIC_KEY entry
QualifiedByExactKey(acl) ==
    \E i \in DOMAIN acl.peers :
        /\ acl.peers[i].type = "PEER_WITH_PUBLIC_KEY"
        /\ EntryAdmitsPeer(acl.peers[i])
        /\ \A j \in 1..(i - 1) : ~EntryAdmitsPeer(acl.peers[j])

\* a member "*" with action mask 0 that applies to the request
DenyMemberApplies(m, request) ==
    /\ m.memberName = Star
    /\ m.actionMask = {}
    /\ IF MbrNameEmpty(request)
       THEN request.propertyRequest /\ m.memberType \in {"PROPERTY", "NOT_SPECIFIED"}
       ELSE m.memberType \in {"NOT_SPECIFIED", request.mbrType}

ExplicitDenyRule(rule, request) ==
    /\ rule.objPath = Star
    /\ rule.interfaceName = Star
    /\ \E k \in DOMAIN rule.members : DenyMemberApplies(rule.members[k], request)

PolicyExplicitlyDenies ==
    \E a \in DOMAIN policy.acls :
        /\ QualifiedByExactKey(policy.acls[a])
        /\ \E r \in DOMAIN policy.acls[a].rules : ExplicitDenyRule(policy.acls[a].rules[r], Req)

\* C1: whenever IsAuthorized ran for a request that derives a nonzero right and
\* some ACL the peer qualified for by exact public key holds a rule "*","*"
\* with an applicable member "*" of action mask 0, the verdict is
\* not-authorized, whatever else the policy allows.
DenyOverridesAllow ==
    (Called /\ Trace.called /\ Trace.right # NoRight /\ policy.present /\ PolicyExplicitlyDenies)
        => (~Trace.authorized /\ out.result.status = "ER_PERMISSION_DENIED")

\* C1 witness: an explicit deny applies while another ACL or rule allows the request
DenyOverridesAllowWitness ==
    /\ Called /\ Trace.called /\ Trace.right # NoRight /\ PolicyExplicitlyDenies
    /\ Trace.byPolicy /\ Trace.denied
    /\ ~Trace.authorized

(***************************************************************************)
(* SpecManifest: a claimed application, a few policies, and peers whose     *)
(* manifest lists have every shape up to MaxMembersTotal members, or one    *)
(* rule over every member.                                                  *)
(***************************************************************************)
GrantX == Member(<<"x">>, "NOT_SPECIFIED", AllActions)

ManifestRuleNames == { <<Star, Star>>, <<PathA, IfaceI>> }

ManifestMemberPool == { DenyStar, GrantStar, GrantX }

ShapedManifests ==
    UNION { ManifestSeqsOfWeight(ManifestRuleNames, ManifestMemberPool, n) : n \in 0..MaxMembersTotal }
        \cup { << <<>> >>, << <<>>, AllowAllManifest >> }

OneRuleManifests ==
    { << <<Rule(pi[1], pi[2], ms)>> >> :
        pi \in { <<Star, Star>>, <<PathA, IfaceI>>, <<PathA, <<"j">> >> },
        ms \in UNION { { <<m>>, <<m, GrantX>> } : m \in AnyMember } }

ManifestPolicies ==
    { AllowAllPolicy,
      PolicyOf(<<Acl(<<KeyOnePeer>>, <<Rule(PathA, IfaceI, <<GrantM>>)>>)>>),
      PolicyOf(<<Acl(<<AnyTrustedPeer>>, <<Rule(Star, Star, <<Member(Star, "PROPERTY", AllActions)>>)>>)>>) }

ManifestPeers ==
    { RemotePeer(found, IF found THEN "K1" ELSE NoKey, mech, ms) :
        found \in BOOLEAN, mech \in {"ALLJOYN_ECDHE_PSK"},
        ms \in ShapedManifests \cup OneRuleManifests }

InitManifest ==
    /\ permissionMgmtObj = ClaimedObj
    /\ policy \in ManifestPolicies
    /\ peerState \in ManifestPeers
    /\ permissionMgmt = NewPermissionMgmt(FALSE)
    /\ nameTable = NewNameTable
    /\ out = Idle

NextManifest ==
    \/ \E outgoing \in BOOLEAN, msg \in PolicyMsgs, authenticated \in BOOLEAN :
          AuthorizeMessage(outgoing, msg, authenticated)
    \/ \E propName \in {MemberM, NullStr} : AuthorizeGetProperty(PathA, IfaceI, propName)
    \/ Return

SpecManifest == InitManifest /\ [][NextManifest]_vars

\* the rule's object path and interface name match the request
RuleCoversRequest(rule, request) ==
    /\ rule.objPath # EmptyStr /\ rule.interfaceName # EmptyStr
    /\ rule.objPath = request.objPath \/ MatchesPrefix(request.objPath, rule.objPath)
    /\ rule.interfaceName = request.iName \/ MatchesPrefix(request.iName, rule.interfaceName)

\* member m names the member the request asks for
MemberNamesRequest(m, request) ==
    /\ m.memberName # EmptyStr
    /\ m.memberName = request.mbrName \/ MatchesPrefix(request.mbrName, m.memberName)

\* some member of the rule grants the right to the request
RuleGrants(rule, request, right) ==
    /\ RuleCoversRequest(rule, request)
    /\ \E k \in DOMAIN rule.members :
          LET m == rule.members[k] IN
          IF MbrNameEmpty(request)
          THEN /\ request.propertyRequest
               /\ \/ /\ m.memberName = Star
                     /\ m.memberType \in {"PROPERTY", "NOT_SPECIFIED"}
                     /\ (m.actionMask \cap right) = right
                  \/ ~request.outgoing /\ m.memberName \notin {EmptyStr, Star}
          ELSE /\ MemberNamesRequest(m, request)
               /\ m.memberType \in {"NOT_SPECIFIED", request.mbrType}
               /\ (m.actionMask \cap right) = right

ManifestGrants ==
    \E i \in DOMAIN peerState.manifests : \E r \in DOMAIN peerState.manifests[i] :
        RuleGrants(peerState.manifests[i][r], Req, Trace.right)

PolicyGrants ==
    \E a \in DOMAIN policy.acls :
        /\ \E i \in DOMAIN policy.acls[a].peers : EntryAdmitsPeer(policy.acls[a].peers[i])
        /\ \E r \in DOMAIN policy.acls[a].rules : RuleGrants(policy.acls[a].rules[r], Req, Trace.right)

\* some manifest rule has a member that names the requested member
ManifestNamesMember ==
    \E i \in DOMAIN peerState.manifests : \E r \in DOMAIN peerState.manifests[i] :
        \E k \in DOMAIN peerState.manifests[i][r].members :
            MemberNamesRequest(peerState.manifests[i][r].members[k], Req)

\* manifest enforcement applies to the call in progress
ManifestEnforced ==
    Called /\ Trace.called /\ Trace.right # NoRight /\ Trace.policyChecked /\ Trace.enforceManifest

\* C2: when manifest enforcement applies, the request is authorized only if the
\* policy grants it and some rule of some manifest of the peer grants the same
\* right; a peer with no manifest, or whose manifests do not name the requested
\* member, is denied even though the policy allows the request.
ManifestIsCeiling ==
    ManifestEnforced =>
        /\ out.result.status = "ER_OK" => (PolicyGrants /\ ManifestGrants)
        /\ Len(peerState.manifests) = 0 => out.result.status = "ER_PERMISSION_DENIED"
        /\ (~MbrNameEmpty(Req) /\ ~ManifestNamesMember) => out.result.status = "ER_PERMISSION_DENIED"

\* C2 witness: the policy allows the request and the manifests refuse it
ManifestIsCeilingWitness ==
    /\ ManifestEnforced /\ Trace.byPolicy /\ ~Trace.denied /\ Trace.manifestChecked
    /\ Len(peerState.manifests) > 0 /\ ~MbrNameEmpty(Req) /\ ~ManifestNamesMember
    /\ out.result.status = "ER_PERMISSION_DENIED"

ManifestExplicitlyDenies ==
    \E i \in DOMAIN peerState.manifests : \E r \in DOMAIN peerState.manifests[i] :
        ExplicitDenyRule(peerState.manifests[i][r], Req)

\* C3: when some rule of some manifest of the peer explicitly denies the request
\* (rule "*","*" with an applicable member "*" of action mask 0), the manifest
\* check returns not-authorized, whatever the other manifest rules grant.
ManifestDenyWins ==
    (Called /\ Trace.manifestChecked /\ ManifestExplicitlyDenies) => ~Trace.authorized

(***************************************************************************)
(* SpecRequest: IsAuthorized applied to every request descriptor.          *)
(***************************************************************************)
IsAuthorizedCall(request, authenticated) ==
    /\ out = Idle
    /\ LET t == IsAuthorized(request, policy, peerState, permissionMgmtObj, authenticated) IN
       out' = [op |-> "IsAuthorized", outgoing |-> request.outgoing,
               authenticated |-> authenticated, msg |-> NoMsg,
               result |-> Verdict(IF t.authorized THEN "ER_OK" ELSE "ER_PERMISSION_DENIED",
                                  TRUE, request, FALSE, FALSE, t)]
    /\ UNCHANGED <<permissionMgmtObj, policy, peerState, permissionMgmt, nameTable>>

AnyRequest ==
    { [outgoing |-> o, propertyRequest |-> p, isSetProperty |-> s, objPath |-> PathA,
       iName |-> IfaceI, mbrName |-> n, mbrType |-> t] :
        o \in BOOLEAN, p \in BOOLEAN, s \in BOOLEAN, n \in {MemberM, NullStr}, t \in MemberTypes }

InitRequest ==
    /\ permissionMgmtObj = ClaimedObj
    /\ policy \in { NoPolicy, AllowAllPolicy,
                    PolicyOf(<<Acl(<<KeyOnePeer>>, <<Rule(Star, Star, <<DenyStar>>)>>)>>) }
    /\ peerState \in { RemotePeer(TRUE, "K1", "ALLJOYN_ECDHE_ECDSA", <<AllowAllManifest>>),
                       RemotePeer(TRUE, "K2", "ALLJOYN_ECDHE_ECDSA", <<>>),
                       LocalPeer }
    /\ permissionMgmt = NewPermissionMgmt(FALSE)
    /\ nameTable = NewNameTable
    /\ out = Idle

NextRequest ==
    \/ \E request \in AnyRequest, authenticated \in BOOLEAN : IsAuthorizedCall(request, authenticated)
    \/ Return

SpecRequest == InitRequest /\ [][NextRequest]_vars

\* the kind of a request, as the right derivation table names it
KindOf(request) ==
    IF request.propertyRequest
    THEN CASE request.mbrType = "SIGNAL" -> "PropertiesChanged"
           [] request.mbrType = "PROPERTY" /\ request.isSetProperty -> "SetProperty"
           [] request.mbrType = "PROPERTY" /\ ~request.isSetProperty -> "GetProperty"
           [] OTHER -> "other"
    ELSE CASE request.mbrType = "SIGNAL" -> "Signal"
           [] request.mbrType = "METHOD_CALL" -> "MethodCall"
           [] OTHER -> "other"

RightTable ==
    [ PropertiesChanged |-> [outgoing |-> ACTION_OBSERVE, incoming |-> ACTION_PROVIDE],
      Signal |-> [outgoing |-> ACTION_OBSERVE, incoming |-> ACTION_PROVIDE],
      SetProperty |-> [outgoing |-> ACTION_PROVIDE, incoming |-> ACTION_MODIFY],
      GetProperty |-> [outgoing |-> ACTION_PROVIDE, incoming |-> ACTION_OBSERVE],
      MethodCall |-> [outgoing |-> ACTION_PROVIDE, incoming |-> ACTION_MODIFY] ]

\* C8: the right derived for a request of one of the table's kinds is the
\* table's entry for its kind and direction, and is exactly one action bit.
RightFollowsTable ==
    (Called /\ Trace.called /\ KindOf(Req) # "other") =>
        /\ Trace.right = IF Req.outgoing THEN RightTable[KindOf(Req)].outgoing
                         ELSE RightTable[KindOf(Req)].incoming
        /\ Cardinality(Trace.right) = 1

\* C8 witness: an incoming GetProperty derived OBSERVE
RightFollowsTableWitness ==
    /\ Called /\ Trace.called /\ KindOf(Req) = "GetProperty" /\ ~Req.outgoing
    /\ Trace.right = ACTION_OBSERVE

NoObj ==
    [present |-> FALSE, hasTrustAnchors |-> FALSE, publicKeyStatus |-> "ER_FAIL",
     publicKey |-> NoKey, capsStatus |-> "ER_FAIL", capabilities |-> {}]

UnclaimedObj(capsStatus, capabilities) ==
    [present |-> TRUE, hasTrustAnchors |-> FALSE, publicKeyStatus |-> "ER_OK",
     publicKey |-> "K1", capsStatus |-> capsStatus, capabilities |-> capabilities]

GateObjs ==
    {NoObj, ClaimedObj, UnclaimedObj("ER_FAIL", {})}
        \cup { UnclaimedObj("ER_OK", c) : c \in SUBSET AllCapabilities }

GatePolicies ==
    { NoPolicy, AllowAllPolicy, PolicyOf(<<Acl(<<KeyOnePeer>>, <<Rule(Star, Star, <<DenyStar>>)>>)>>) }

GatePeers ==
    {LocalPeer} \cup
    { [RemotePeer(TRUE, "K1", "ALLJOYN_ECDHE_ECDSA", <<AllowAllManifest>>) EXCEPT !.authSuite = a] :
        a \in ClaimSuites \cup {"AUTH_SUITE_ANONYMOUS"} }

GateInterfaces ==
    { ApplicationInterface, ClaimableApplicationInterface, ManagedApplicationInterface, IfaceI }

GateMembers ==
    { <<"Version">>, <<"Claim">>, <<"Claim", "X">>, <<"ApplicationState">>, <<"ManifestTemplate">>,
      <<"EccPublicKey">>, <<"Claim", "Capabilit", "ies">>, <<"Reset">>, MemberM, EmptyStr }

PropertiesMembers ==
    { <<"Get", "All">>, <<"Get">>, <<"Set">>, <<"PropertiesChanged">>, <<"Get", "X">>, <<"Foo">>, EmptyStr }

PropertiesArgs ==
    { <<>> } \cup { <<i>> : i \in GateInterfaces }
        \cup { <<i, p>> : i \in GateInterfaces, p \in { <<"Version">>, <<"Claim">>, MemberM } }

GateMsgs ==
    { [type |-> t, objPath |-> PathA, iface |-> i, member |-> m, args |-> <<>>] :
        t \in {"MESSAGE_METHOD_CALL", "MESSAGE_SIGNAL"},
        i \in GateInterfaces \cup {AllJoynBus, FreedesktopDBus \o <<".Introspectable">>},
        m \in GateMembers }
    \cup
    { [type |-> t, objPath |-> PathA, iface |-> PropertiesInterface, member |-> m, args |-> a] :
        t \in {"MESSAGE_METHOD_CALL", "MESSAGE_SIGNAL"}, m \in PropertiesMembers, a \in PropertiesArgs }
    \cup
    { [type |-> t, objPath |-> PathA, iface |-> i, member |-> MemberM, args |-> <<>>] :
        t \in {"MESSAGE_METHOD_RET", "MESSAGE_ERROR"}, i \in {IfaceI, ManagedApplicationInterface} }

Init ==
    /\ permissionMgmtObj \in GateObjs
    /\ policy \in GatePolicies
    /\ peerState \in GatePeers
    /\ permissionMgmt = NewPermissionMgmt(FALSE)
    /\ nameTable = NewNameTable
    /\ out = Idle

Next ==
    \/ \E outgoing \in BOOLEAN, msg \in GateMsgs : AuthorizeMessage(outgoing, msg, TRUE)
    \/ \E ifcName \in GateInterfaces, propName \in {<<"Version">>, MemberM, NullStr} :
          AuthorizeGetProperty(PathA, ifcName, propName)
    \/ Return

Spec == Init /\ [][Next]_vars

\* AuthorizeMessage is in progress and got as far as the permission-management object
MessageReachedObj ==
    out.op = "AuthorizeMessage" /\ out.result.classified /\ permissionMgmtObj.present

\* the capability bit that declares a suite acceptable for claiming
SuiteCapability ==
    [ AUTH_SUITE_ECDHE_NULL |-> "CAPABLE_ECDHE_NULL", AUTH_SUITE_ECDHE_PSK |-> "CAPABLE_ECDHE_PSK",
      AUTH_SUITE_ECDHE_SPEKE |-> "CAPABLE_ECDHE_SPEKE", AUTH_SUITE_ECDHE_ECDSA |-> "CAPABLE_ECDHE_ECDSA" ]

PeerMayClaim ==
    \/ peerState.isLocalPeer
    \/ /\ permissionMgmtObj.capsStatus = "ER_OK"
       /\ peerState.authSuite \in DOMAIN SuiteCapability
       /\ SuiteCapability[peerState.authSuite] \in permissionMgmtObj.capabilities

\* C4: an incoming Claim on the claimable-application interface is authorized
\* exactly when no trust anchors exist and the peer is the local peer or its
\* suite's capability bit is set in the claim capabilities; otherwise the
\* status is permission-denied.
ClaimGate ==
    (MessageReachedObj /\ ~out.outgoing /\ Req.iName = ClaimableApplicationInterface
       /\ Req.mbrName = <<"Claim">>) =>
        /\ out.result.status = "ER_OK" <=> (~permissionMgmtObj.hasTrustAnchors /\ PeerMayClaim)
        /\ out.result.status \in {"ER_OK", "ER_PERMISSION_DENIED"}
        /\ out.result.handled

\* C4 witness: a remote peer claims with a suite whose capability bit is set
ClaimGateWitness ==
    /\ MessageReachedObj /\ ~out.outgoing /\ Req.iName = ClaimableApplicationInterface
    /\ Req.mbrName = <<"Claim">> /\ out.msg.type = "MESSAGE_METHOD_CALL"
    /\ ~peerState.isLocalPeer /\ peerState.authSuite = "AUTH_SUITE_ECDHE_SPEKE"
    /\ permissionMgmtObj.capabilities = {"CAPABLE_ECDHE_SPEKE", "CAPABLE_ECDHE_NULL"}
    /\ out.result.status = "ER_OK"

\* C5: while the application has no trust anchors, every incoming request that
\* targets the managed-application interface is denied by AuthorizeMessage.
UnclaimedManagedDenied ==
    (MessageReachedObj /\ ~permissionMgmtObj.hasTrustAnchors /\ ~out.outgoing
       /\ Req.iName = ManagedApplicationInterface) =>
        out.result.status = "ER_PERMISSION_DENIED"

\* C7: with no trust anchors, AuthorizeMessage allows every classified request
\* the gate does not handle, except method calls on a permission-management
\* interface, which it denies, and AuthorizeGetProperty allows every request;
\* IsAuthorized (policy, trust, manifests) is not entered.
UnclaimedRule ==
    (Called /\ permissionMgmtObj.present /\ ~permissionMgmtObj.hasTrustAnchors) =>
        /\ ~Trace.called
        /\ (out.op = "AuthorizeMessage" /\ out.result.classified /\ ~out.result.handled) =>
              out.result.status =
                  IF Req.iName \in {ApplicationInterface, ClaimableApplicationInterface,
                                    ManagedApplicationInterface}
                     /\ Req.mbrType = "METHOD_CALL"
                  THEN "ER_PERMISSION_DENIED" ELSE "ER_OK"
        /\ out.op = "AuthorizeGetProperty" => out.result.status = "ER_OK"

\* C7 witness: an unclaimed application lets an ordinary method call through
\* although the installed policy denies the peer everything
UnclaimedRuleWitness ==
    /\ MessageReachedObj /\ ~permissionMgmtObj.hasTrustAnchors /\ ~out.result.handled
    /\ ~out.outgoing /\ Req.iName = IfaceI /\ Req.mbrType = "METHOD_CALL"
    /\ policy.present /\ policy # AllowAllPolicy /\ ~peerState.isLocalPeer
    /\ out.result.status = "ER_OK"

\* AuthorizeMessage is in progress on a call or signal of the Properties interface
PropertiesMessage ==
    /\ out.op = "AuthorizeMessage"
    /\ out.msg.type \in {"MESSAGE_METHOD_CALL", "MESSAGE_SIGNAL"}
    /\ out.msg.iface = PropertiesInterface

\* the member name starts with none of the four names the classifier knows
UnknownPropertiesMember ==
    \A known \in { <<"Get">>, <<"Set">>, <<"PropertiesChanged">> } :
        ~HasPrefix(out.msg.member, known)

\* the number of arguments the classifier reads for the member
ArgsNeeded ==
    IF HasPrefix(out.msg.member, <<"Get", "All">>) THEN 1
    ELSE IF HasPrefix(out.msg.member, <<"Get">>) \/ HasPrefix(out.msg.member, <<"Set">>) THEN 2
    ELSE 1

TooFewArgs ==
    ~UnknownPropertiesMember /\ Len(out.msg.args) < ArgsNeeded

\* nothing after classification ran: no gate, no unclaimed rule, no policy
NoFallback ==
    /\ ~out.result.classified
    /\ ~out.result.gateConsulted
    /\ ~Trace.called

NoObjDeniesAll ==
    (Called /\ ~permissionMgmtObj.present) => out.result.status = "ER_PERMISSION_DENIED"

\* C10 amended: without a permission-management object AuthorizeGetProperty
\* denies every request and AuthorizeMessage denies every call or signal that
\* is not on a standard interface and that classifies; replies, errors and
\* standard-interface messages are allowed and a classification error is
\* returned as it is; the policy is never evaluated.
NoObjDeniesClassified ==
    (Called /\ ~permissionMgmtObj.present) =>
        /\ ~Trace.called
        /\ out.op = "AuthorizeGetProperty" => out.result.status = "ER_PERMISSION_DENIED"
        /\ out.op = "AuthorizeMessage" =>
              IF out.msg.type \notin {"MESSAGE_METHOD_CALL", "MESSAGE_SIGNAL"}
                 \/ IsStdInterface(out.msg.iface)
              THEN out.result.status = "ER_OK"
              ELSE IF PropertiesMessage /\ UnknownPropertiesMember
              THEN out.result.status = "ER_FAIL"
              ELSE IF PropertiesMessage /\ TooFewArgs
              THEN out.result.status = "ER_INVALID_DATA"
              ELSE IF PropertiesMessage /\ Len(out.msg.args) # ArgsNeeded
              THEN out.result.status \in {"ER_INVALID_DATA", "ER_PERMISSION_DENIED"}
              ELSE out.result.status = "ER_PERMISSION_DENIED"

\* C10 witness: an ordinary method call is denied for lack of the object
\* although the policy would allow everything
NoObjDeniesClassifiedWitness ==
    /\ Called /\ ~permissionMgmtObj.present /\ out.op = "AuthorizeMessage"
    /\ out.msg.type = "MESSAGE_METHOD_CALL" /\ out.msg.iface = IfaceI
    /\ policy = AllowAllPolicy
    /\ out.result.status = "ER_PERMISSION_DENIED"

(***************************************************************************)
(* SpecTrust: a claimed application, peers in every trust state (local,     *)
(* trusted by key, legacy-authenticated, untrusted, metadata unavailable),  *)
(* with and without manifests and memberships, and a policy per peer type.  *)
(***************************************************************************)
MembershipOne == << <<[type |-> "MEMBERSHIP_CERTIFICATE", guild |-> "G1"]>> >>

MembershipOnePeer == Peer("PEER_WITH_MEMBERSHIP", NoKeyInfo, "G1")

\* a manifest that grants nothing the generated messages ask for
OtherManifest == <<Rule(PathA, <<"j">>, <<GrantStar>>)>>

TrustManifests == { <<>>, <<AllowAllManifest>>, <<OtherManifest>> }

TrustPeers ==
    { [LocalPeer EXCEPT !.manifests = ms, !.guildMap = gm] :
        ms \in TrustManifests, gm \in {<<>>, MembershipOne} }
    \cup
    { [RemotePeer(f[2], f[3], f[4], ms) EXCEPT !.metaStatus = f[1], !.guildMap = gm] :
        f \in { <<"ER_OK", TRUE, "K1", "ALLJOYN_ECDHE_ECDSA">>,
                <<"ER_OK", TRUE, "K2", "ALLJOYN_ECDHE_ECDSA">>,
                <<"ER_OK", FALSE, NoKey, "ALLJOYN_ECDHE_PSK">>,
                <<"ER_OK", FALSE, NoKey, "ALLJOYN_SRP_KEYX">>,
                <<"ER_OK", FALSE, NoKey, "ALLJOYN_ECDHE_NULL">>,
                <<"ER_BUS_KEY_UNAVAILABLE", FALSE, NoKey, "none">>,
                <<"ER_FAIL", FALSE, NoKey, "none">> },
        ms \in TrustManifests, gm \in {<<>>, MembershipOne} }

TrustPolicies ==
    { NoPolicy, AllowAllPolicy,
      PolicyOf(<<Acl(<<KeyOnePeer>>, <<Rule(Star, Star, <<GrantStar>>)>>)>>),
      PolicyOf(<<Acl(<<AnyTrustedPeer>>, <<Rule(Star, Star, <<GrantStar>>)>>)>>),
      PolicyOf(<<Acl(<<MembershipOnePeer>>, <<Rule(Star, Star, <<GrantStar>>)>>)>>),
      PolicyOf(<<Acl(<<KeyOnePeer>>, <<Rule(Star, Star, <<DenyStar>>)>>),
                 Acl(<<AllPeer>>, <<Rule(Star, Star, <<GrantStar>>)>>)>>) }

InitTrust ==
    /\ permissionMgmtObj \in { ClaimedObj, [ClaimedObj EXCEPT !.publicKeyStatus = "ER_FAIL"] }
    /\ policy \in TrustPolicies
    /\ peerState \in TrustPeers
    /\ permissionMgmt = NewPermissionMgmt(FALSE)
    /\ nameTable = NewNameTable
    /\ out = Idle

NextTrust ==
    \/ \E outgoing \in BOOLEAN, msg \in PolicyMsgs, authenticated \in BOOLEAN :
          AuthorizeMessage(outgoing, msg, authenticated)
    \/ \E propName \in {MemberM, NullStr} : AuthorizeGetProperty(PathA, IfaceI, propName)
    \/ \E request \in AnyRequest, authenticated \in BOOLEAN : IsAuthorizedCall(request, authenticated)
    \/ Return

SpecTrust == InitTrust /\ [][NextTrust]_vars

\* C11: for every request that derives a nonzero right, IsAuthorized returns
\* not-authorized when no policy document exists, whatever the peer's trust
\* state, public key, memberships and manifests; the manifests are not even
\* consulted.
NoPolicyDenies ==
    (Called /\ Trace.called /\ Trace.right # NoRight /\ ~policy.present) =>
        /\ ~Trace.authorized
        /\ out.result.status = "ER_PERMISSION_DENIED"
        /\ ~Trace.policyChecked /\ ~Trace.manifestChecked

\* C11 witness: a peer trusted by key, with a membership and a manifest that
\* grants everything, is refused for lack of a policy
NoPolicyDeniesWitness ==
    /\ Called /\ Trace.called /\ Trace.right # NoRight /\ ~policy.present
    /\ out.authenticated /\ peerState.publicKeyFound /\ peerState.guildMap # <<>>
    /\ peerState.manifests = <<AllowAllManifest>>
    /\ out.result.status = "ER_PERMISSION_DENIED"

(***************************************************************************)
(* SpecProperties: messages of the Properties interface, with every member  *)
(* and argument list, through AuthorizeMessage and                          *)
(* ParsePropertiesMessageHeaders.                                           *)
(***************************************************************************)
PropertiesMsgs ==
    { [type |-> t, objPath |-> PathA, iface |-> PropertiesInterface, member |-> m, args |-> a] :
        t \in {"MESSAGE_METHOD_CALL", "MESSAGE_SIGNAL"},
        m \in PropertiesMembers \cup { <<"Get", "All", "X">>, <<"Set", "X">>, <<"PropertiesChanged", "X">> },
        a \in PropertiesArgs }

InitProperties ==
    /\ permissionMgmtObj \in { NoObj, ClaimedObj, UnclaimedObj("ER_OK", {}) }
    /\ policy \in { NoPolicy, AllowAllPolicy }
    /\ peerState \in { LocalPeer, RemotePeer(TRUE, "K1", "ALLJOYN_ECDHE_ECDSA", <<AllowAllManifest>>) }
    /\ permissionMgmt = NewPermissionMgmt(FALSE)
    /\ nameTable = NewNameTable
    /\ out = Idle

NextProperties ==
    \/ \E outgoing \in BOOLEAN, msg \in PropertiesMsgs : AuthorizeMessage(outgoing, msg, TRUE)
    \/ \E msg \in PropertiesMsgs : ParsePropertiesMessageHeaders(msg)
    \/ Return

SpecProperties == InitProperties /\ [][NextProperties]_vars

\* a message of the Properties interface was classified by the call in progress
PropertiesClassified ==
    /\ out.op \in {"AuthorizeMessage", "ParsePropertiesMessageHeaders"}
    /\ out.msg.iface = PropertiesInterface
    /\ out.result.classified

\* the sub-kind the member-name prefix selects, GetAll before Get
SubKind ==
    IF HasPrefix(out.msg.member, <<"Get", "All">>) THEN "GetAll"
    ELSE IF HasPrefix(out.msg.member, <<"Get">>) THEN "Get"
    ELSE IF HasPrefix(out.msg.member, <<"Set">>) THEN "Set"
    ELSE IF HasPrefix(out.msg.member, <<"PropertiesChanged">>) THEN "PropertiesChanged"
    ELSE "none"

\* C12: a classified message of the Properties interface is a property request
\* on the interface named by argument 0; the member-name prefix gives the
\* sub-kind: GetAll has member type PROPERTY and no member name; Get and Set
\* have member type PROPERTY, the member named by argument 1 and isSetProperty
\* exactly for Set; PropertiesChanged has member type SIGNAL.
PropertiesSubKind ==
    PropertiesClassified =>
        /\ Req.propertyRequest
        /\ Req.iName = out.msg.args[1]
        /\ Req.isSetProperty <=> (SubKind = "Set")
        /\ CASE SubKind = "GetAll" -> Req.mbrType = "PROPERTY" /\ IsNull(Req.mbrName)
             [] SubKind \in {"Get", "Set"} -> Req.mbrType = "PROPERTY" /\ Req.mbrName = out.msg.args[2]
             [] SubKind = "PropertiesChanged" -> Req.mbrType = "SIGNAL"
             [] OTHER -> FALSE
        /\ out.op = "ParsePropertiesMessageHeaders" =>
              /\ out.result.interfaceName = out.msg.args[1]
              /\ out.result.memberName =
                    IF SubKind \in {"Get", "Set"} THEN out.msg.args[2] ELSE EmptyStr

\* C12 witness: an outgoing GetAll that carries two arguments is still a
\* GetAll: no member name, although argument 1 is there
PropertiesSubKindWitness ==
    /\ PropertiesClassified /\ out.op = "AuthorizeMessage" /\ out.outgoing
    /\ out.msg.member = <<"Get", "All">> /\ Len(out.msg.args) = 2
    /\ IsNull(Req.mbrName) /\ Req.mbrType = "PROPERTY" /\ Req.iName = out.msg.args[1]

(***************************************************************************)
(* SpecRepeat: every evaluation of SpecTrust's messages, followed by a      *)
(* second evaluation of the same request.                                   *)
(***************************************************************************)
NextRepeat ==
    \/ \E outgoing \in BOOLEAN, msg \in PolicyMsgs, authenticated \in BOOLEAN :
          AuthorizeMessage(outgoing, msg, authenticated)
    \/ \E propName \in {MemberM, NullStr} : AuthorizeGetProperty(PathA, IfaceI, propName)
    \/ AuthorizeMessageAgain
    \/ AuthorizeGetPropertyAgain
    \/ Return

SpecRepeat == InitTrust /\ [][NextRepeat]_vars

MaxUpdates == 1

InFlight == out # Idle /\ out.pc # "done"

\* lines 829-832 and 448-501: GetPolicy() is read once and passed to
\* IsAuthorized, which derives the right and resolves the peer's trust
IsAuthorizedBegin(outgoing, msg) ==
    /\ out = Idle
    /\ msg.type \in {"MESSAGE_METHOD_CALL", "MESSAGE_SIGNAL"} /\ ~IsStdInterface(msg.iface)
    /\ LET parsed == ClassifyMessage(msg, outgoing)
           request == parsed.request
           right == GenRight(request)
           t == ResolveTrust(peerState, permissionMgmtObj, TRUE)
           go == right # NoRight /\ policy.present
       IN
       /\ parsed.status = "ER_OK"
       /\ permissionMgmtObj.present /\ permissionMgmtObj.hasTrustAnchors
       /\ ~IsPermissionMgmtInterface(request.iName)
       /\ out' = [op |-> "IsAuthorized", outgoing |-> outgoing, authenticated |-> TRUE, msg |-> msg,
                  result |-> Verdict("ER_PERMISSION_DENIED", TRUE, request, FALSE, FALSE,
                                     [NoTrace EXCEPT !.called = TRUE, !.right = right,
                                                     !.policyChecked = go,
                                                     !.trustedPeer = t.trustedPeer,
                                                     !.trustedPeerPublicKey = t.trustedPeerPublicKey,
                                                     !.issuerPublicKeys = t.issuerPublicKeys,
                                                     !.enforceManifest = t.enforceManifest]),
                  pc |-> IF go THEN "acls" ELSE "done",
                  policyRef |-> policy, manifestsRef |-> <<>>, cnt |-> 1,
                  seenPolicies |-> {policy}, seenManifests |-> {peerState.manifests}, updates |-> 0]
    /\ UNCHANGED <<permissionMgmtObj, policy, peerState, permissionMgmt, nameTable>>

\* A plausible slip: the loop asks GetPolicy() again at every iteration.
IsPeerAuthorizedStepRereads ==
    /\ out # Idle /\ out.pc = "acls"
    /\ LET tr == out.result.trace IN
       IF ~policy.present \/ out.cnt > Len(policy.acls)
       THEN out' = [out EXCEPT !.pc = "aclsEnd"]
       ELSE LET acl == policy.acls[out.cnt]
                q == IsPeerQualifiedForAcl(acl, peerState, tr.trustedPeer, tr.trustedPeerPublicKey,
                                           tr.issuerPublicKeys)
                m == IsPolicyAclMatched(acl, Req, tr.right, q.qualifiedPeerWithPublicKey, FALSE)
            IN IF ~q.qualified
               THEN out' = [out EXCEPT !.cnt = @ + 1]
               ELSE out' = [out EXCEPT !.cnt = @ + 1,
                                       !.result.trace.byPolicy = @ \/ m.allowed,
                                       !.result.trace.denied = m.denied,
                                       !.pc = IF m.denied THEN "aclsEnd" ELSE @]
    /\ UNCHANGED <<permissionMgmtObj, policy, peerState, permissionMgmt, nameTable>>

\* lines 422-435: one iteration of the loop over the ACLs of the policy
IsPeerAuthorizedStep ==
    /\ out # Idle /\ out.pc = "acls"
    /\ LET tr == out.result.trace IN
       IF out.cnt > Len(out.policyRef.acls)
       THEN out' = [out EXCEPT !.pc = "aclsEnd"]
       ELSE LET acl == out.policyRef.acls[out.cnt]
                q == IsPeerQualifiedForAcl(acl, peerState, tr.trustedPeer, tr.trustedPeerPublicKey,
                                           tr.issuerPublicKeys)
                m == IsPolicyAclMatched(acl, Req, tr.right, q.qualifiedPeerWithPublicKey, FALSE)
            IN IF ~q.qualified
               THEN out' = [out EXCEPT !.cnt = @ + 1]
               ELSE out' = [out EXCEPT !.cnt = @ + 1,
                                       !.result.trace.byPolicy = @ \/ m.allowed,
                                       !.result.trace.denied = m.denied,
                                       !.pc = IF m.denied THEN "aclsEnd" ELSE @]
    /\ UNCHANGED <<permissionMgmtObj, policy, peerState, permissionMgmt, nameTable>>

\* lines 516-521 and 329: the test after the policy check; the manifest loop
\* takes the peer's manifest list
IsPeerAuthorizedEnd ==
    /\ out # Idle /\ out.pc = "aclsEnd"
    /\ LET tr == out.result.trace IN
       IF tr.denied \/ ~tr.byPolicy
       THEN out' = [out EXCEPT !.pc = "done"]
       ELSE IF tr.enforceManifest
       THEN out' = [out EXCEPT !.pc = "manifests", !.cnt = 1, !.manifestsRef = peerState.manifests,
                               !.result.trace.manifestChecked = TRUE]
       ELSE out' = [out EXCEPT !.pc = "done", !.result.trace.authorized = TRUE,
                               !.result.status = "ER_OK"]
    /\ UNCHANGED <<permissionMgmtObj, policy, peerState, permissionMgmt, nameTable>>

\* lines 329-343: one iteration of the loop over the peer's manifests
IsAuthorizedByPeerManifestStep ==
    /\ out # Idle /\ out.pc = "manifests"
    /\ LET tr == out.result.trace IN
       IF out.cnt > Len(out.manifestsRef)
       THEN out' = [out EXCEPT !.pc = "done",
                               !.result.status = IF tr.authorized THEN "ER_OK" ELSE "ER_PERMISSION_DENIED"]
       ELSE LET r == ManifestRulesLoop(out.manifestsRef[out.cnt], 1, tr.authorized, Req, tr.right) IN
            IF r.returned
            THEN out' = [out EXCEPT !.pc = "done", !.result.trace.authorized = FALSE]
            ELSE out' = [out EXCEPT !.cnt = @ + 1, !.result.trace.authorized = r.allowed]
    /\ UNCHANGED <<permissionMgmtObj, policy, peerState, permissionMgmt, nameTable>>

\* lines 833-837: AuthorizeMessage returns the status
IsAuthorizedReturn ==
    /\ out # Idle /\ out.pc = "done"
    /\ out' = Idle
    /\ UNCHANGED <<permissionMgmtObj, policy, peerState, permissionMgmt, nameTable>>

\* another thread installs or replaces the policy: the new document is
\* published whole, the old one stays intact for the calls that hold it
SetPolicy(p) ==
    /\ p # policy
    /\ policy' = p
    /\ IF InFlight
       THEN /\ out.updates < MaxUpdates
            /\ out' = [out EXCEPT !.seenPolicies = @ \cup {p}, !.updates = @ + 1]
       ELSE out' = out
    /\ UNCHANGED <<permissionMgmtObj, peerState, permissionMgmt, nameTable>>

\* another thread replaces the peer's manifest list by the list ms (one
\* manifest installed or removed): the new list is published whole
PublishManifests(ms) ==
    /\ peerState' = [peerState EXCEPT !.manifests = ms]
    /\ IF InFlight
       THEN /\ out.updates < MaxUpdates
            /\ out' = [out EXCEPT !.seenManifests = @ \cup {ms}, !.updates = @ + 1]
       ELSE out' = out
    /\ UNCHANGED <<permissionMgmtObj, policy, permissionMgmt, nameTable>>

InstallManifest(m) ==
    /\ Len(peerState.manifests) < 2
    /\ PublishManifests(Append(peerState.manifests, m))

RemoveManifest(i) ==
    /\ i \in DOMAIN peerState.manifests
    /\ PublishManifests(SubSeq(peerState.manifests, 1, i - 1)
                          \o SubSeq(peerState.manifests, i + 1, Len(peerState.manifests)))

GrantAcl == Acl(<<AllPeer>>, <<Rule(Star, Star, <<GrantStar>>)>>)

OtherAcl == Acl(<<AllPeer>>, <<Rule(PathA, <<"j">>, <<GrantStar>>)>>)

DenyAcl == Acl(<<KeyOnePeer>>, <<Rule(Star, Star, <<DenyStar>>)>>)

ConcurrentPolicies ==
    {NoPolicy} \cup { PolicyOf(acls) : acls \in Seqs({GrantAcl, OtherAcl, DenyAcl}, 2) }

ConcurrentManifests == {AllowAllManifest, OtherManifest}

InitConcurrent ==
    /\ permissionMgmtObj = ClaimedObj
    /\ policy \in ConcurrentPolicies
    /\ peerState \in { RemotePeer(TRUE, "K1", "ALLJOYN_ECDHE_ECDSA", ms) :
                         ms \in UNION { Seqs(ConcurrentManifests, n) : n \in 0..2 } }
    /\ permissionMgmt = NewPermissionMgmt(FALSE)
    /\ nameTable = NewNameTable
    /\ out = Idle

NextConcurrent ==
    \/ IsAuthorizedBegin(FALSE, MethodCall(IfaceI, MemberM))
    \/ IsPeerAuthorizedStep
    \/ IsPeerAuthorizedEnd
    \/ IsAuthorizedByPeerManifestStep
    \/ IsAuthorizedReturn
    \/ \E p \in ConcurrentPolicies : SetPolicy(p)
    \/ \E m \in ConcurrentManifests : InstallManifest(m)
    \/ \E i \in 1..2 : RemoveManifest(i)

SpecConcurrent == InitConcurrent /\ [][NextConcurrent]_vars

\* the verdict of a whole evaluation over policy p and manifest list ms
SnapshotVerdict(p, ms) ==
    IsAuthorized(Req, p, [peerState EXCEPT !.manifests = ms], permissionMgmtObj, TRUE).authorized

ClaimArgs == {"none", "not a key", "short key", "K1", "K2"}

InitClaim ==
    /\ permissionMgmtObj = NoObj
    /\ policy = NoPolicy
    /\ peerState = LocalPeer
    /\ permissionMgmt \in { NewPermissionMgmt(cl) : cl \in BOOLEAN }
    /\ nameTable = NewNameTable
    /\ out = Idle

NextClaim ==
    \/ \E arg \in ClaimArgs, accepts \in BOOLEAN : Claim(arg, accepts)
    \/ \E on \in BOOLEAN : SetClaimableState(on)
    \/ Return

SpecClaim == InitClaim /\ [][NextClaim]_vars

\* C15: a Claim request that does not succeed (the application is not
\* CLAIMABLE, the root-of-trust argument is missing or malformed, or the
\* listener refuses) leaves the claim state and the list of root-of-trust
\* keys as they were.
FailedClaimChangesNothing ==
    [][(out'.op = "Claim" /\ out'.reply # "METHOD_RET") =>
          /\ permissionMgmt'.claimableState = permissionMgmt.claimableState
          /\ permissionMgmt'.pubKeyRoTs = permissionMgmt.pubKeyRoTs]_vars

(***************************************************************************)
(* SpecQualify: a claimed application and policies of one ACL whose peer    *)
(* entries are every sequence of one or two entries of the five types, and  *)
(* whose rules combine a wildcard deny, near-misses of it and a specific    *)
(* grant; peers with a key, an issuer and a membership.                     *)
(***************************************************************************)
CaOnePeer == Peer("PEER_FROM_CERTIFICATE_AUTHORITY", "CA1", "none")

QualifyEntries == { KeyOnePeer, AllPeer, AnyTrustedPeer, CaOnePeer, MembershipOnePeer }

GrantRule == Rule(PathA, IfaceI, <<GrantM>>)

QualifyRuleSeqs ==
    { <<Rule(Star, Star, <<DenyStar>>), GrantRule>>,
      <<GrantRule, Rule(Star, Star, <<DenyStar>>)>>,
      <<Rule(Star, Star, <<GrantM, DenyStar>>)>>,
      <<Rule(Star, Star, <<DenyStarMethod>>), GrantRule>>,
      <<Rule(PathA, Star, <<DenyStar>>), GrantRule>>,
      <<Rule(Star, IfaceI, <<DenyStar>>), GrantRule>>,
      <<Rule(Star, Star, <<Member(<<"m", "*">>, "NOT_SPECIFIED", {})>>), GrantRule>>,
      <<Rule(Star, Star, <<Member(Star, "NOT_SPECIFIED", ACTION_OBSERVE)>>), GrantRule>>,
      <<GrantRule>> }

QualifyPolicies ==
    { PolicyOf(<<Acl(ps, rs)>>) :
        ps \in Seqs(QualifyEntries, 1) \cup Seqs(QualifyEntries, 2), rs \in QualifyRuleSeqs }

QualifyPeers ==
    { [RemotePeer(TRUE, k, "ALLJOYN_ECDHE_ECDSA", <<AllowAllManifest>>)
          EXCEPT !.issuerPublicKeys = ca, !.guildMap = gm] :
        k \in {"K1", "K2"}, ca \in {<<>>, <<"CA1">>}, gm \in {<<>>, MembershipOne} }
    \cup { RemotePeer(FALSE, NoKey, "ALLJOYN_ECDHE_PSK", <<>>),
           RemotePeer(FALSE, NoKey, "ALLJOYN_ECDHE_NULL", <<>>) }

InitQualify ==
    /\ permissionMgmtObj = ClaimedObj
    /\ policy \in QualifyPolicies
    /\ peerState \in QualifyPeers
    /\ permissionMgmt = NewPermissionMgmt(FALSE)
    /\ nameTable = NewNameTable
    /\ out = Idle

NextQualify ==
    \/ \E outgoing \in BOOLEAN, msg \in PolicyMsgs : AuthorizeMessage(outgoing, msg, TRUE)
    \/ \E propName \in {MemberM, NullStr} : AuthorizeGetProperty(PathA, IfaceI, propName)
    \/ Return

SpecQualify == InitQualify /\ [][NextQualify]_vars

\* the rule has the literal form of an explicit deny
LiteralDenyRule(rule) ==
    /\ rule.objPath = Star
    /\ rule.interfaceName = Star
    /\ \E k \in DOMAIN rule.members :
          rule.members[k].memberName = Star /\ rule.members[k].actionMask = {}

\* C16: policy evaluation signals explicit deny only if some ACL that the peer
\* qualified for by exact public-key match holds a rule with object path "*",
\* interface "*" and a member "*" of action mask 0; when the peer qualified for
\* no ACL by its key (only through ALL, ANY_TRUSTED, a certificate authority
\* or a membership), nothing is denied and a grant of the ACL applies.
DenyOnlyByExactKey ==
    (Called /\ Trace.called /\ Trace.policyChecked) =>
        /\ Trace.denied =>
              \E a \in DOMAIN policy.acls :
                  /\ QualifiedByExactKey(policy.acls[a])
                  /\ \E r \in DOMAIN policy.acls[a].rules : LiteralDenyRule(policy.acls[a].rules[r])
        /\ (\A a \in DOMAIN policy.acls : ~QualifiedByExactKey(policy.acls[a])) =>
              /\ ~Trace.denied
              /\ PolicyGrants => Trace.byPolicy

\* C16 witness: a peer that qualified through its certificate authority, in an
\* ACL that also lists its key further on, passes the wildcard deny and gets
\* the specific grant
DenyOnlyByExactKeyWitness ==
    /\ Called /\ Trace.called /\ Trace.policyChecked
    /\ policy.acls[1].peers = <<CaOnePeer, KeyOnePeer>>
    /\ policy.acls[1].rules = <<Rule(Star, Star, <<DenyStar>>), GrantRule>>
    /\ peerState.publicKey = "K1"
    /\ ~Trace.denied /\ Trace.byPolicy /\ out.result.status = "ER_OK"

\* C17: a request with an empty member name (GetAll) is explicitly denied
\* only by a member "*" of action mask 0 whose member type is PROPERTY or
\* NOT_SPECIFIED; a member "*" of type METHOD_CALL or SIGNAL with mask 0 does
\* not deny it.
GetAllDeniedByPropertyMembersOnly ==
    (Called /\ Trace.called /\ Trace.policyChecked /\ MbrNameEmpty(Req) /\ Trace.denied) =>
        \E a \in DOMAIN policy.acls : \E r \in DOMAIN policy.acls[a].rules :
            \E k \in DOMAIN policy.acls[a].rules[r].members :
                LET m == policy.acls[a].rules[r].members[k] IN
                /\ m.memberName = Star
                /\ m.actionMask = {}
                /\ m.memberType \in {"PROPERTY", "NOT_SPECIFIED"}

\* the sequence seq read from its last element to its first
Reversed(seq) == [i \in 1..Len(seq) |-> seq[Len(seq) + 1 - i]]

\* the policy pol with the peer entries of every ACL in the opposite order
PeersReordered(pol) ==
    [pol EXCEPT !.acls = [a \in DOMAIN pol.acls |->
                            [pol.acls[a] EXCEPT !.peers = Reversed(pol.acls[a].peers)]]]

\* C18: the verdict of policy evaluation for a request is unchanged by
\* reordering the peer entries inside an ACL: the evaluation of the same
\* request for the same peer against the policy with its peer entries in the
\* opposite order allows and denies exactly as the call in progress did.
PeerEntryOrderIrrelevant ==
    (Called /\ Trace.called /\ Trace.policyChecked) =>
        LET other == IsAuthorized(Req, PeersReordered(policy), peerState, permissionMgmtObj,
                                  out.authenticated)
        IN /\ other.denied = Trace.denied
           /\ other.byPolicy = Trace.byPolicy
           /\ other.authorized = Trace.authorized

(***************************************************************************)
(* SpecOrder: a claimed application and policies of two ACLs of one rule    *)
(* or of one ACL of two rules, each rule of one or two members that grant   *)
(* or deny; remote peers that match the key entry or do not.                *)
(***************************************************************************)
OrderMemberSeqs ==
    Seqs({DenyStar, GrantStar, GrantM, DenyStarMethod}, 1)
        \cup Seqs({DenyStar, GrantStar, GrantM, DenyStarMethod}, 2)

OrderRules ==
    { Rule(pi[1], pi[2], ms) : pi \in { <<Star, Star>>, <<PathA, IfaceI>> }, ms \in OrderMemberSeqs }

OrderAcls == { Acl(<<p>>, <<r>>) : p \in {KeyOnePeer, AllPeer}, r \in OrderRules }

OrderPolicies ==
    { PolicyOf(acls) : acls \in Seqs(OrderAcls, 2) }
    \cup { PolicyOf(<<Acl(<<p>>, rs)>>) : p \in {KeyOnePeer, AllPeer}, rs \in Seqs(OrderRules, 2) }

OrderPeers ==
    { RemotePeer(TRUE, k, "ALLJOYN_ECDHE_ECDSA", <<AllowAllManifest>>) : k \in {"K1", "K2"} }

OrderMsgs ==
    { MethodCall(IfaceI, MemberM),
      PropertiesCall(<<"Get", "All">>, <<IfaceI>>),
      PropertiesCall(<<"Set">>, <<IfaceI, MemberM>>) }

InitOrder ==
    /\ permissionMgmtObj = ClaimedObj
    /\ policy \in OrderPolicies
    /\ peerState \in OrderPeers
    /\ permissionMgmt = NewPermissionMgmt(FALSE)
    /\ nameTable = NewNameTable
    /\ out = Idle

NextOrder ==
    \/ \E msg \in OrderMsgs : AuthorizeMessage(FALSE, msg, TRUE)
    \/ \E propName \in {MemberM, NullStr} : AuthorizeGetProperty(PathA, IfaceI, propName)
    \/ Return

SpecOrder == InitOrder /\ [][NextOrder]_vars

\* every order of the elements of the sequence seq
Orders(seq) ==
    { [i \in 1..Len(seq) |-> seq[f[i]]] : f \in Permutations(1..Len(seq)) }

\* sequences that take their i-th element from the i-th set of the sequence sets
Choices(sets) ==
    { c \in [1..Len(sets) -> UNION { sets[i] : i \in 1..Len(sets) }] :
        \A i \in 1..Len(sets) : c[i] \in sets[i] }

\* the rule with its members in every order
RuleOrders(rule) == { [rule EXCEPT !.members = ms] : ms \in Orders(rule.members) }

\* the ACL with its rules, and the members of each rule, in every order
AclOrders(acl) ==
    UNION { { [acl EXCEPT !.rules = rs] :
                rs \in Choices([i \in 1..Len(ro) |-> RuleOrders(ro[i])]) } :
            ro \in Orders(acl.rules) }

\* the policy with its ACLs, their rules and their members in every order
PolicyOrders(pol) ==
    UNION { { [pol EXCEPT !.acls = acs] :
                acs \in Choices([i \in 1..Len(ao) |-> AclOrders(ao[i])]) } :
            ao \in Orders(pol.acls) }

\* C19: the verdict of IsAuthorized for a request is the same for every order
\* of the ACLs of the policy, of the rules inside an ACL and of the members
\* inside a rule: the early returns on allow or on deny never change it.
VerdictIgnoresOrder ==
    (Called /\ Trace.called /\ Trace.policyChecked) =>
        \A q \in PolicyOrders(policy) :
            IsAuthorized(Req, q, peerState, permissionMgmtObj, out.authenticated).authorized
                = Trace.authorized

\* C19 witness: a policy of more than one ACL in which an allow was found
\* before the explicit deny that decides the verdict
VerdictIgnoresOrderWitness ==
    /\ Called /\ Trace.called /\ Trace.policyChecked
    /\ Len(policy.acls) > 1
    /\ Trace.byPolicy /\ Trace.denied /\ ~Trace.authorized

\* C20: manifest enforcement applies only to a non-local peer trusted by an
\* exchanged public key: in every call for the local peer, for a peer trusted
\* without a public key or for an untrusted peer, the peer's manifests are
\* not consulted and the verdict is the verdict of the policy.
ManifestOnlyForKeyedRemotePeer ==
    (/\ Called /\ Trace.called /\ Trace.policyChecked
     /\ \/ peerState.isLocalPeer
        \/ ~Trace.trustedPeer
        \/ Trace.trustedPeerPublicKey = NoKey) =>
        /\ ~Trace.manifestChecked
        /\ Trace.authorized = (Trace.byPolicy /\ ~Trace.denied)

(***************************************************************************)
(* SpecMembership: a claimed application, policies of one ACL whose peer    *)
(* entries are membership entries, and peers trusted with a key, trusted    *)
(* without one or untrusted, holding certificate chains of every kind.      *)
(***************************************************************************)
MembershipCert(guild) == [type |-> "MEMBERSHIP_CERTIFICATE", guild |-> guild]

MembershipTwoPeer == Peer("PEER_WITH_MEMBERSHIP", NoKeyInfo, "G2")

MembershipGuildMaps ==
    { <<>>,
      MembershipOne,
      << <<>> >>,
      << <<MembershipCert("G2")>> >>,
      << <<[type |-> "IDENTITY_CERTIFICATE", guild |-> "G1"]>> >>,
      << <<MembershipCert("G2"), MembershipCert("G1")>> >>,
      << <<MembershipCert("G2")>>, <<MembershipCert("G1")>> >>,
      << <<>>, <<MembershipCert("G1"), MembershipCert("G2")>> >> }

MembershipPolicies ==
    { PolicyOf(<<Acl(ps, rs)>>) :
        ps \in { <<MembershipOnePeer>>, <<MembershipTwoPeer>>,
                 <<MembershipTwoPeer, MembershipOnePeer>> },
        rs \in { <<Rule(Star, Star, <<GrantStar>>)>>, <<GrantRule>>,
                 <<Rule(Star, Star, <<DenyStar>>), GrantRule>> } }

MembershipPeers ==
    { [RemotePeer(f[1], f[2], f[3], <<AllowAllManifest>>) EXCEPT !.guildMap = gm] :
        f \in { <<TRUE, "K1", "ALLJOYN_ECDHE_ECDSA">>,
                <<FALSE, NoKey, "ALLJOYN_ECDHE_PSK">>,
                <<FALSE, NoKey, "ALLJOYN_ECDHE_NULL">> },
        gm \in MembershipGuildMaps }
    \cup { [LocalPeer EXCEPT !.guildMap = gm] : gm \in MembershipGuildMaps }

InitMembership ==
    /\ permissionMgmtObj = ClaimedObj
    /\ policy \in MembershipPolicies
    /\ peerState \in MembershipPeers
    /\ permissionMgmt = NewPermissionMgmt(FALSE)
    /\ nameTable = NewNameTable
    /\ out = Idle

NextMembership ==
    \/ \E outgoing \in BOOLEAN, msg \in PolicyMsgs : AuthorizeMessage(outgoing, msg, TRUE)
    \/ \E propName \in {MemberM, NullStr} : AuthorizeGetProperty(PathA, IfaceI, propName)
    \/ Return

SpecMembership == InitMembership /\ [][NextMembership]_vars

\* the peer holds a certificate chain whose leaf is a membership certificate
\* of the security group sgId
HoldsMembershipOf(sgId) ==
    \E i \in DOMAIN peerState.guildMap :
        /\ peerState.guildMap[i] # <<>>
        /\ Head(peerState.guildMap[i]) = MembershipCert(sgId)

\* the policy is one ACL of membership entries only and a rule of it grants
\* the request, so that the policy allows exactly when the peer qualifies
MembershipDecides ==
    /\ Called /\ Trace.called /\ Trace.policyChecked
    /\ Len(policy.acls) = 1
    /\ \A i \in DOMAIN policy.acls[1].peers : policy.acls[1].peers[i].type = "PEER_WITH_MEMBERSHIP"
    /\ \E r \in DOMAIN policy.acls[1].rules : RuleGrants(policy.acls[1].rules[r], Req, Trace.right)

\* some membership entry of the ACL names a group the peer is a member of
MemberOfListedGroup ==
    \E i \in DOMAIN policy.acls[1].peers : HoldsMembershipOf(policy.acls[1].peers[i].securityGroupId)

\* C21 as stated: for any trusted peer, a PEER_WITH_MEMBERSHIP entry qualifies
\* the peer for the ACL if and only if the peer holds a membership certificate
\* chain whose leaf certificate carries the entry's security-group id.
MembershipQualifiesTrusted ==
    (MembershipDecides /\ Trace.trustedPeer) => (Trace.byPolicy <=> MemberOfListedGroup)

\* C21 amended: for any peer trusted with a public key, a PEER_WITH_MEMBERSHIP
\* entry qualifies the peer for the ACL if and only if the peer holds a
\* membership certificate chain whose leaf certificate carries the entry's
\* security-group id.
MembershipQualifiesKeyed ==
    (MembershipDecides /\ Trace.trustedPeer /\ Trace.trustedPeerPublicKey # NoKey) =>
        (Trace.byPolicy <=> MemberOfListedGroup)

\* C21 witness: a peer trusted with a key qualifies through the second
\* membership entry of the ACL
MembershipQualifiesKeyedWitness ==
    /\ MembershipDecides /\ Trace.trustedPeer /\ Trace.trustedPeerPublicKey # NoKey
    /\ policy.acls[1].peers = <<MembershipTwoPeer, MembershipOnePeer>>
    /\ HoldsMembershipOf("G1") /\ ~HoldsMembershipOf("G2")
    /\ Trace.byPolicy

(***************************************************************************)
(* SpecUntrusted: the policies and peers of SpecQualify, with messages      *)
(* that arrive authenticated or not.                                        *)
(***************************************************************************)
NextUntrusted ==
    \/ \E msg \in {MethodCall(IfaceI, MemberM), PropertiesCall(<<"Get", "All">>, <<IfaceI>>)},
          authenticated \in BOOLEAN : AuthorizeMessage(FALSE, msg, authenticated)
    \/ Return

SpecUntrusted == InitQualify /\ [][NextUntrusted]_vars

\* C22: an untrusted peer qualifies for an ACL if and only if the ACL holds a
\* PEER_ALL entry, whatever key, issuer or membership it presents: the policy
\* allows its request exactly when an ACL with a PEER_ALL entry holds a rule
\* that grants the request, and nothing is denied to it.
UntrustedOnlyThroughAll ==
    (Called /\ Trace.called /\ Trace.policyChecked /\ ~Trace.trustedPeer) =>
        /\ ~Trace.denied
        /\ Trace.byPolicy <=>
              \E a \in DOMAIN policy.acls :
                  /\ \E i \in DOMAIN policy.acls[a].peers : policy.acls[a].peers[i].type = "PEER_ALL"
                  /\ \E r \in DOMAIN policy.acls[a].rules :
                        RuleGrants(policy.acls[a].rules[r], Req, Trace.right)

\* C22 witness: an unauthenticated peer that presents the key, the issuer and
\* the membership the ACL lists is not allowed by the ACL's grant
UntrustedOnlyThroughAllWitness ==
    /\ Called /\ Trace.called /\ Trace.policyChecked /\ ~Trace.trustedPeer
    /\ peerState.publicKey = "K1" /\ peerState.issuerPublicKeys = <<"CA1">>
    /\ peerState.guildMap = MembershipOne
    /\ policy.acls[1].peers \in { <<KeyOnePeer, CaOnePeer>>, <<MembershipOnePeer, AnyTrustedPeer>> }
    /\ policy.acls[1].rules = <<GrantRule>>
    /\ ~Trace.byPolicy /\ out.result.status = "ER_PERMISSION_DENIED"

\* what the three cases of trust resolution for a non-local peer require of
\* the call in progress
TrustCases ==
    /\ (peerState.metaStatus = "ER_OK" /\ peerState.publicKeyFound) =>
          /\ Trace.trustedPeer
          /\ Trace.trustedPeerPublicKey = peerState.publicKey
          /\ Trace.enforceManifest
    /\ (/\ peerState.metaStatus = "ER_OK" /\ ~peerState.publicKeyFound
        /\ peerState.authMechanism \in {"ALLJOYN_ECDHE_PSK", "ALLJOYN_SRP_KEYX", "ALLJOYN_SRP_LOGON"}) =>
          /\ Trace.trustedPeer
          /\ Trace.trustedPeerPublicKey = NoKey
          /\ ~Trace.enforceManifest
    /\ (\/ /\ peerState.metaStatus = "ER_OK" /\ ~peerState.publicKeyFound
           /\ peerState.authMechanism \notin {"ALLJOYN_ECDHE_PSK", "ALLJOYN_SRP_KEYX", "ALLJOYN_SRP_LOGON"}
        \/ peerState.metaStatus = "ER_BUS_KEY_UNAVAILABLE") =>
          /\ ~Trace.trustedPeer
          /\ ~Trace.enforceManifest
    /\ peerState.metaStatus \in {"ER_OK", "ER_BUS_KEY_UNAVAILABLE"} =>
          out.result.status = (IF Trace.authorized THEN "ER_OK" ELSE "ER_PERMISSION_DENIED")

\* C23 as stated: for a non-local peer, in every call that checks the policy:
\* with metadata and an exchanged key the peer is trusted by that key and
\* manifest enforcement is on; without a key and with ECDHE_PSK, SRP or Logon
\* it is trusted with enforcement off; with another mechanism or with
\* key-unavailable it is untrusted with enforcement off; the status is the
\* verdict, never an error of the lookup.
TrustResolution ==
    (Called /\ Trace.called /\ Trace.policyChecked /\ ~peerState.isLocalPeer) => TrustCases

\* C23 amended: the same, for every call on an authenticated message.
TrustResolutionAuthenticated ==
    (Called /\ Trace.called /\ Trace.policyChecked /\ ~peerState.isLocalPeer /\ out.authenticated)
        => TrustCases

\* C23 witness: a peer trusted through ECDHE_PSK, without a key and without
\* manifests, is authorized by the policy alone
TrustResolutionAuthenticatedWitness ==
    /\ Called /\ Trace.called /\ Trace.policyChecked /\ ~peerState.isLocalPeer /\ out.authenticated
    /\ peerState.authMechanism = "ALLJOYN_ECDHE_PSK" /\ peerState.manifests = <<>>
    /\ Trace.trustedPeer /\ Trace.trustedPeerPublicKey = NoKey
    /\ ~Trace.manifestChecked /\ Trace.authorized /\ out.result.status = "ER_OK"

(***************************************************************************)
(* SpecRule: a claimed application, a peer trusted with key K1, policies    *)
(* of one ACL that the peer qualifies for (by its key or as any trusted     *)
(* peer) with one rule over every member, and requests of every kind with   *)
(* and without a member name.                                               *)
(***************************************************************************)
RuleMembers ==
    { Member(name, type, mask) :
        name \in {EmptyStr, Star, MemberM, <<"m", "*">>, <<"x">>},
        type \in MemberTypes,
        mask \in {{}, ACTION_OBSERVE, ACTION_PROVIDE \cup ACTION_OBSERVE, AllActions} }

RulePolicies ==
    { PolicyOf(<<Acl(<<p>>, <<Rule(pi[1], pi[2], ms)>>)>>) :
        p \in {KeyOnePeer, AnyTrustedPeer},
        pi \in { <<Star, Star>>, <<PathA, IfaceI>>, <<PathA, <<"j">> >> },
        ms \in UNION { { <<m>>, <<m, DenyStar>> } : m \in RuleMembers } }

RuleRequests ==
    { [outgoing |-> o, propertyRequest |-> p, isSetProperty |-> FALSE, objPath |-> PathA,
       iName |-> IfaceI, mbrName |-> n, mbrType |-> t] :
        o \in BOOLEAN, p \in BOOLEAN, n \in {MemberM, NullStr, EmptyStr}, t \in MemberTypes }

InitRule ==
    /\ permissionMgmtObj = ClaimedObj
    /\ policy \in RulePolicies
    /\ peerState = RemotePeer(TRUE, "K1", "ALLJOYN_ECDHE_ECDSA", <<AllowAllManifest>>)
    /\ permissionMgmt = NewPermissionMgmt(FALSE)
    /\ nameTable = NewNameTable
    /\ out = Idle

NextRule ==
    \/ \E request \in RuleRequests : IsAuthorizedCall(request, TRUE)
    \/ \E outgoing \in BOOLEAN :
          AuthorizeMessage(outgoing, PropertiesCall(<<"Get", "All">>, <<IfaceI>>), TRUE)
    \/ Return

SpecRule == InitRule /\ [][NextRule]_vars

\* the rule of the policy, which has one ACL of one rule
TheRule == policy.acls[1].rules[1]

\* the call in progress evaluated the rule and the rule's object path and
\* interface match the request
RuleEvaluated ==
    /\ Called /\ Trace.called /\ Trace.policyChecked
    /\ Len(policy.acls) = 1 /\ Len(policy.acls[1].rules) = 1
    /\ TheRule.objPath \in {Star, Req.objPath}
    /\ TheRule.interfaceName \in {Star, Req.iName}

\* some member "*" of type PROPERTY or NOT_SPECIFIED covers the required right
StarPropertyMemberCovers ==
    \E k \in DOMAIN TheRule.members :
        /\ TheRule.members[k].memberName = Star
        /\ TheRule.members[k].memberType \in {"PROPERTY", "NOT_SPECIFIED"}
        /\ Trace.right \subseteq TheRule.members[k].actionMask

\* some member has a name that is neither empty nor "*"
HasNamedMember ==
    \E k \in DOMAIN TheRule.members : TheRule.members[k].memberName \notin {EmptyStr, Star}

NamedMemberCovers ==
    \E k \in DOMAIN TheRule.members :
        /\ MemberNamesRequest(TheRule.members[k], Req)
        /\ TheRule.members[k].memberType \in {"NOT_SPECIFIED", Req.mbrType}
        /\ Trace.right \subseteq TheRule.members[k].actionMask

\* C25 as stated: for a request with a non-empty member name, a rule whose
\* object path and interface match allows the request if and only if some
\* member has a non-empty name that equals or pattern-matches the request's
\* member name, a type that is NOT_SPECIFIED or the request's type, and a mask
\* that covers the required right.
NamedRuleAllowsIff ==
    (RuleEvaluated /\ ~MbrNameEmpty(Req)) => (Trace.byPolicy <=> NamedMemberCovers)

\* C25 amended: the same equivalence for a rule that signals no explicit
\* deny; a rule that signals explicit deny does not allow.
NamedRuleAllowsUnlessDenied ==
    (RuleEvaluated /\ ~MbrNameEmpty(Req)) =>
        (Trace.byPolicy <=> (NamedMemberCovers /\ ~Trace.denied))

\* C25 witness: a matching member whose mask is nonzero but lacks the
\* required bit does not allow
NamedRuleAllowsUnlessDeniedWitness ==
    /\ RuleEvaluated /\ ~MbrNameEmpty(Req)
    /\ TheRule.members = <<Member(MemberM, "NOT_SPECIFIED", ACTION_PROVIDE \cup ACTION_OBSERVE)>>
    /\ Trace.right = ACTION_MODIFY
    /\ ~Trace.byPolicy /\ ~Trace.denied

(***************************************************************************)
(* SpecGate: the messages and peers of Spec for an application that is      *)
(* claimed, or unclaimed with no or with every claim capability.            *)
(***************************************************************************)
InitGate ==
    /\ permissionMgmtObj \in { ClaimedObj, UnclaimedObj("ER_OK", {}),
                               UnclaimedObj("ER_OK", AllCapabilities) }
    /\ policy \in GatePolicies
    /\ peerState \in GatePeers
    /\ permissionMgmt = NewPermissionMgmt(FALSE)
    /\ nameTable = NewNameTable
    /\ out = Idle

SpecGate == InitGate /\ [][Next]_vars

\* the peer of the call in progress with another trust state and other
\* manifests and memberships
OtherTrustStates ==
    { [peerState EXCEPT !.metaStatus = f[1], !.publicKeyFound = f[2], !.publicKey = f[3],
                        !.authMechanism = f[4], !.manifests = ms, !.guildMap = gm] :
        f \in { <<"ER_OK", TRUE, "K1", "ALLJOYN_ECDHE_ECDSA">>,
                <<"ER_OK", TRUE, "K2", "ALLJOYN_ECDHE_ECDSA">>,
                <<"ER_OK", FALSE, NoKey, "ALLJOYN_ECDHE_NULL">>,
                <<"ER_BUS_KEY_UNAVAILABLE", FALSE, NoKey, "none">> },
        ms \in { <<>>, <<AllowAllManifest>> },
        gm \in { MembershipOne } }

\* C26: whenever the permission-management gate handles a request, the
\* verdict of AuthorizeMessage is the gate's verdict, and the evaluation of
\* the same message with any other policy, trust state of the peer,
\* manifests, memberships and authentication flag returns the same verdict.
GateSupersedesPolicy ==
    (Called /\ out.op = "AuthorizeMessage" /\ out.result.handled) =>
        /\ out.result.status =
              (IF AuthorizePermissionMgmt(out.outgoing, Req.iName, Req.mbrName,
                                          permissionMgmtObj, peerState).authorized
               THEN "ER_OK" ELSE "ER_PERMISSION_DENIED")
        /\ \A pol \in GatePolicies \cup TrustPolicies, ps \in OtherTrustStates,
              authenticated \in BOOLEAN :
              AuthorizeMessageResult(out.outgoing, out.msg, permissionMgmtObj, pol, ps,
                                     authenticated).status = out.result.status

\* C26 witness: a claimed application without a policy, whose policy engine
\* denies everything, lets an incoming request through because the gate
\* allowed it
GateSupersedesPolicyWitness ==
    /\ Called /\ out.op = "AuthorizeMessage" /\ out.result.handled /\ ~out.outgoing
    /\ permissionMgmtObj.hasTrustAnchors /\ policy = NoPolicy
    /\ out.result.status = "ER_OK"

\* an incoming request on the Application interface reached the gate
ApplicationGateCall ==
    /\ Called /\ out.op = "AuthorizeMessage" /\ out.result.gateConsulted
    /\ ~out.outgoing /\ Req.iName = ApplicationInterface

\* C27: for an incoming request on the Application interface, the gate always
\* allows the members Version and ApplicationState; it allows a member of the
\* discovery whitelist while no trust anchors exist; once the application is
\* claimed the gate does not handle a whitelist member and the verdict is the
\* verdict of the policy engine.
ApplicationGate ==
    ApplicationGateCall =>
        /\ Req.mbrName \in { <<"Version">>, <<"ApplicationState">> } =>
              (out.result.handled /\ out.result.status = "ER_OK")
        /\ Req.mbrName \in { <<"ManifestTemplate", "Digest">>, <<"EccPublicKey">>,
                             <<"ManufacturerCertificate">>, <<"ManifestTemplate">>,
                             <<"Claim", "Capabilit", "ies">>,
                             <<"Claim", "Capabilit", "yAdditionalInfo">> } =>
              IF ~permissionMgmtObj.hasTrustAnchors
              THEN out.result.handled /\ out.result.status = "ER_OK"
              ELSE /\ ~out.result.handled
                   /\ Trace.called
                   /\ out.result.status =
                        (IF Trace.authorized THEN "ER_OK" ELSE "ER_PERMISSION_DENIED")
                   /\ policy = NoPolicy => out.result.status = "ER_PERMISSION_DENIED"

\* C27 witness: the claimed application's policy denies the read of
\* EccPublicKey that the gate allowed while the application was unclaimed
ApplicationGateWitness ==
    /\ ApplicationGateCall /\ Req.mbrName = <<"EccPublicKey">>
    /\ permissionMgmtObj.hasTrustAnchors
    /\ ~out.result.handled /\ Trace.policyChecked /\ out.result.status = "ER_PERMISSION_DENIED"

(***************************************************************************)
(* SpecNamesSequential: one thread calls the NameTable, each call          *)
(* returning before the next begins.  SpecNames: a second thread makes the  *)
(* calls that keep the lock, also while a RemoveUniqueName of the first     *)
(* has released it.                                                         *)
(***************************************************************************)
InitNames ==
    /\ permissionMgmtObj = ClaimedObj
    /\ policy = NoPolicy
    /\ peerState = LocalPeer
    /\ permissionMgmt = NewPermissionMgmt(FALSE)
    /\ nameTable = NewNameTable
    /\ out = Idle

LockedCall(th) ==
    \/ \E u \in UniqueNameSet : AddUniqueName(th, u)
    \/ \E a \in AliasNameSet, u \in UniqueNameSet, flags \in NameFlagSets : AddAlias(th, a, u, flags)
    \/ \E a \in AliasNameSet, u \in UniqueNameSet : RemoveAlias(th, a, u)
    \/ \E busName \in AliasNameSet \cup UniqueNameSet : FindEndpoint(th, busName)

NameTableCall(th) ==
    \/ LockedCall(th)
    \/ \E u \in UniqueNameSet : RemoveUniqueNameBegin(th, u)
    \/ RemoveUniqueNameRelease(th)
    \/ RemoveUniqueNameResume(th)

NextNamesSequential == NameTableCall("t1")

SpecNamesSequential == InitNames /\ [][NextNamesSequential]_vars

NextNames == NameTableCall("t1") \/ LockedCall("t2")

SpecNames == InitNames /\ [][NextNames]_vars

\* the unique name u is an entry of the queue of some well-known name
Queued(u) ==
    \E a \in DOMAIN nameTable.aliasNames :
        \E i \in DOMAIN nameTable.aliasNames[a] : nameTable.aliasNames[a][i].endpointName = u

\* C28: when RemoveUniqueName(u) has returned, u is not in the unique-name
\* map and no queue of a well-known name holds u, as primary owner or as
\* waiter, whatever calls of AddUniqueName, AddAlias and RemoveAlias came
\* before, one after the other.
RemovedNameIsGone ==
    nameTable.last.op = "RemoveUniqueName" =>
        /\ nameTable.last.name \notin nameTable.uniqueNames
        /\ ~Queued(nameTable.last.name)

\* C29: every well-known name present in the alias map has a non-empty
\* queue, and no assertion of AddAlias, RemoveAlias or FindEndpoint has
\* failed.
QueuesNonEmpty ==
    /\ \A a \in DOMAIN nameTable.aliasNames : nameTable.aliasNames[a] # <<>>
    /\ ~nameTable.last.assertFailed

\* a call of the second thread ran while RemoveUniqueName of the first had
\* released the lock, so that its RemoveAlias did not release the name, and
\* well-known names are present
QueuesNonEmptyWitness ==
    /\ nameTable.removals["t1"].pc = "released"
    /\ nameTable.removals["t1"].disposition # "DBUS_RELEASE_NAME_REPLY_RELEASED"
    /\ nameTable.last.op \in {"AddAlias", "RemoveAlias"}
    /\ \E a \in DOMAIN nameTable.aliasNames : Len(nameTable.aliasNames[a]) > 1

(***************************************************************************)
(* qcc::KeyInfo.  A KeyInfo is [format, keyIdLen, keyId, null]: keyId is    *)
(* the sequence of the keyIdLen bytes and null says that the pointer is     *)
(* NULL.  SpecKeyInfo keeps two objects a and b in out, sets their key ids, *)
(* copies one to the other and compares them.                               *)
(***************************************************************************)
\* the longest key id
MaxKeyIdLen == 2

FormatTypes == {0, 1, 2}

KeyIdBytes == {0, 1, 255}

\* KeyInfo(FormatType format)
NewKeyInfo(format) == [format |-> format, keyIdLen |-> 0, keyId |-> <<>>, null |-> TRUE]

\* KeyInfo::SetKeyId
SetKeyIdResult(k, keyID) ==
    IF Len(keyID) = 0 THEN [k EXCEPT !.keyIdLen = 0, !.keyId = <<>>, !.null = TRUE]
    ELSE [k EXCEPT !.keyIdLen = Len(keyID), !.keyId = keyID, !.null = FALSE]

\* KeyInfo(const KeyInfo& other)
CopyKeyInfo(other) ==
    [format |-> other.format, keyIdLen |-> other.keyIdLen, keyId |-> other.keyId, null |-> FALSE]

\* the sign of memcmp over the first n bytes
RECURSIVE memcmp(_, _, _)
memcmp(x, y, n) ==
    IF n = 0 THEN 0
    ELSE IF x[1] < y[1] THEN -1
    ELSE IF x[1] > y[1] THEN 1
    ELSE memcmp(Tail(x), Tail(y), n - 1)

\* KeyInfo::operator==
KeyInfoEqual(this, other) ==
    IF this.format # other.format THEN FALSE
    ELSE IF this.keyIdLen # other.keyIdLen THEN FALSE
    ELSE IF this.null \/ other.null THEN this.null /\ other.null
    ELSE IF 0 # memcmp(this.keyId, other.keyId, this.keyIdLen) THEN FALSE
    ELSE TRUE

\* KeyInfo::operator<
KeyInfoLess(this, other) ==
    IF this.format < other.format THEN TRUE
    ELSE IF this.keyIdLen < other.keyIdLen THEN TRUE
    ELSE IF ~this.null /\ ~other.null /\ this.keyIdLen = other.keyIdLen
            /\ 0 > memcmp(this.keyId, other.keyId, this.keyIdLen)
    THEN TRUE
    ELSE FALSE

KeyIds == UNION { [1..n -> KeyIdBytes] : n \in 0..MaxKeyIdLen }

\* the two objects and the last comparison of them
KeyInfoPair(a, b, compared, less, greater, equal) ==
    [op |-> "KeyInfo", a |-> a, b |-> b, compared |-> compared,
     less |-> less, greater |-> greater, equal |-> equal]

SetKeyId(first, keyID) ==
    /\ out.op = "KeyInfo"
    /\ out' = IF first
              THEN KeyInfoPair(SetKeyIdResult(out.a, keyID), out.b, FALSE, FALSE, FALSE, FALSE)
              ELSE KeyInfoPair(out.a, SetKeyIdResult(out.b, keyID), FALSE, FALSE, FALSE, FALSE)
    /\ UNCHANGED <<permissionMgmtObj, policy, peerState, permissionMgmt, nameTable>>

\* a is replaced by a copy of b, or b by a copy of a
CopyConstruct(first) ==
    /\ out.op = "KeyInfo"
    /\ out' = IF first
              THEN KeyInfoPair(CopyKeyInfo(out.b), out.b, FALSE, FALSE, FALSE, FALSE)
              ELSE KeyInfoPair(out.a, CopyKeyInfo(out.a), FALSE, FALSE, FALSE, FALSE)
    /\ UNCHANGED <<permissionMgmtObj, policy, peerState, permissionMgmt, nameTable>>

\* a < b, b < a and a == b are evaluated
Compare ==
    /\ out.op = "KeyInfo"
    /\ out' = KeyInfoPair(out.a, out.b, TRUE, KeyInfoLess(out.a, out.b),
                          KeyInfoLess(out.b, out.a), KeyInfoEqual(out.a, out.b))
    /\ UNCHANGED <<permissionMgmtObj, policy, peerState, permissionMgmt, nameTable>>

InitKeyInfo ==
    /\ permissionMgmtObj = ClaimedObj
    /\ policy = NoPolicy
    /\ peerState = LocalPeer
    /\ permissionMgmt = NewPermissionMgmt(FALSE)
    /\ nameTable = NewNameTable
    /\ out \in { KeyInfoPair(NewKeyInfo(fa), NewKeyInfo(fb), FALSE, FALSE, FALSE, FALSE) :
                    fa \in FormatTypes, fb \in FormatTypes }

NextKeyInfo ==
    \/ \E first \in BOOLEAN, keyID \in KeyIds : SetKeyId(first, keyID)
    \/ \E first \in BOOLEAN : CopyConstruct(first)
    \/ Compare

SpecKeyInfo == InitKeyInfo /\ [][NextKeyInfo]_vars

\* C30: for all KeyInfo values a and b, of every format, key-id length and
\* key-id bytes, a < b and b < a never both hold.
KeyInfoLessAsymmetric ==
    (out.op = "KeyInfo" /\ out.compared) => ~(out.less /\ out.greater)

====
